---- MODULE Spec2Model ----
(***************************************************************************)
(* A model of the weesels relay client: the session engine of              *)
(* src/src/wee/mod.rs (struct Wee, its public operations, one run() turn   *)
(* and handle_one) over a transport that delivers the server's bytes in    *)
(* pieces.                                                                 *)
(*                                                                         *)
(* Strings that the code only copies or compares (pointers, names,        *)
(* commands) are TLA+ strings.  Strings that strip_colors scans are        *)
(* sequences of one-character strings, with X19 and X1C standing for the   *)
(* bytes \x19 and \x1c.  Option<T> is a sequence of length 0 or 1.         *)
(*                                                                         *)
(* A frame on the wire is four length bytes followed by the compression    *)
(* byte and the body.  The model keeps the four length bytes apart (they   *)
(* are what the cancellable read_u32 reads) and the rest of the frame as   *)
(* one unit, carrying the decoded message: handle_one reads it with        *)
(* blocking reads, so its arrival in pieces is not observable.             *)
(* stream.write is taken to write all of its bytes when it completes       *)
(* (the TLS stream writes whole records) and may stay pending.             *)
(***************************************************************************)
EXTENDS Integers, Sequences, FiniteSets, TLC

(* ---------------------------------------------------------------- bounds *)
\* Frames the server sends, and operations the caller invokes, in one run of
\* the session engine.
MaxFrames == 4
MaxOps == 2
\* The same for one run of the transport.
MaxFramesIO == 2
MaxOpsIO == 2
\* The same for one run that ends in an error.
MaxFramesErr == 3
MaxOpsErr == 2
\* The same for one run in which the relay answers each request in turn.
MaxFramesOrd == 3
MaxOpsOrd == 3
\* The rows of an hdata, and the zero bytes that may follow a message.
MaxRows == 2
MaxTail == 2
\* The characters of a text given to strip_colors.
MaxStripLen == 3
\* The characters the composer may hold and the positions a completion may
\* name.
MaxText == 3
MaxPos == 2
\* Frames handled and reads of the keyboard in one run of the main loop.
MaxFramesUi == 2
MaxOpsUi == 3
\* Calls on the session after connect() has returned it.
MaxOpsConn == 2

(* ------------------------------------------------------- program constants *)
BUFFER_CACHE_SIZE == 100
\* read_u32 reads exactly this many bytes.
HdrLen == 4

None == <<>>
Some(x) == <<x>>

Range(s) == {s[i] : i \in DOMAIN s}

Min(a, b) == IF a < b THEN a ELSE b


(* ----------------------------------------------------------- strip_colors *)
X19 == "x19"
X1C == "x1c"
Panic == [ok |-> FALSE, out |-> <<>>]

\* After \x19 and the optional attribute bytes: the colour code starting at j
\* is @ and five more characters, or two characters (it.next() past the end
\* of the input returns None and is harmless).
SkipColor(s, j) == IF s[j] = "@" THEN j + 6 ELSE j + 2

\* The scan of strip_colors from character i on, with the output so far.
\* peek().unwrap() at the end of the input panics.
RECURSIVE StripAt(_, _, _)
StripAt(s, i, out) ==
    IF i > Len(s) THEN [ok |-> TRUE, out |-> out]
    ELSE IF s[i] = X1C THEN StripAt(s, i + 1, out)
    ELSE IF s[i] = X19 THEN
        IF i + 1 > Len(s) THEN Panic
        ELSE LET j1 == IF s[i + 1] \in {"F", "B"} THEN i + 2 ELSE i + 1 IN
             IF j1 > Len(s) THEN Panic
             ELSE LET j2 == IF s[j1] \in {"*", "!", "/", "_", "|"} THEN j1 + 1 ELSE j1 IN
                  IF j2 > Len(s) THEN Panic
                  ELSE LET j3 == SkipColor(s, j2) IN
                       IF j3 <= Len(s) /\ s[j3] \in {"~", ","}
                       THEN IF j3 + 1 > Len(s) THEN Panic
                            ELSE StripAt(s, SkipColor(s, j3 + 1), out)
                       ELSE StripAt(s, j3, out)
    ELSE StripAt(s, i + 1, Append(out, s[i]))

strip_colors(input) == StripAt(input, 1, <<>>)

\* The line as handle_one caches it: prefix (when present) and message
\* stripped, every other field as received.
StripLine(l) ==
    [l EXCEPT !.prefix = IF l.prefix = None THEN None
                         ELSE Some(strip_colors(l.prefix[1]).out),
              !.message = strip_colors(l.message).out]

StripOk(l) ==
    /\ l.prefix # None => strip_colors(l.prefix[1]).ok
    /\ strip_colors(l.message).ok

(* --------------------------------------------------------------- commands *)
\* Wee::send: the queued message for (id, command).
SendMsg(id, command) == "(" \o id \o ") " \o command \o "\n"

BuffersMsg == SendMsg("gui_buffers", "hdata buffer:gui_buffers(*)")
HotlistMsg == SendMsg("gui_hotlist", "hdata hotlist:gui_hotlist(*)")

BacklogMsg(ptr) ==
    SendMsg("backlog_lines",
            "hdata buffer:0x" \o ptr \o "/own_lines/last_line(-"
                \o ToString(BUFFER_CACHE_SIZE) \o ")/data")

ScrollbackMsg(ptr_line) ==
    SendMsg("scrollback_lines",
            "hdata line:0x" \o ptr_line \o "(-" \o ToString(BUFFER_CACHE_SIZE) \o ")/data")

MarkReadMsg(ptr) == "input 0x" \o ptr \o " /buffer set hotlist -1\n"

\* Wee::close queues the empty string; run() writes this for it.
CloseSentinel == ""
QuitMsg == "(quit) quit\n"

(* ------------------------------------------------------------ input data *)
\* Buffer rows of a gui_buffers reply (messages.rs Buffer without the
\* skipped hotlist field).  full_name and ptr_buffer are unique in a reply.
RowCore == [ptr_buffer |-> "1a", number |-> 1, short_name |-> Some("weechat"),
            full_name |-> "core.weechat", title |-> None]
RowChan == [ptr_buffer |-> "2b", number |-> 2, short_name |-> Some("#chan"),
            full_name |-> "irc.chan", title |-> Some("topic")]
BufferLists == {<<RowCore, RowChan>>, <<RowChan>>}

UnknownPtr == "9f"
NotifyLevels == {-1, 0, 1, 2, 3}

Plain == <<"h", "i">>
Colored == <<X19, "F", "0", "5", "h", X1C, "i">>
ColoredPrefix == <<X19, "*", "@", "0", "0", "1", "2", "3", ",", "0", "2", "n">>

Line(ptr_line, buffer, prefix, message, notify_level) ==
    [ptr_line |-> ptr_line, buffer |-> buffer, date |-> "1600000000",
     displayed |-> 1, highlight |-> 0, prefix |-> prefix, message |-> message,
     notify_level |-> notify_level]

\* The single row of a _buffer_line_added event: every notify level for one
\* buffer, one line for another buffer and one for a buffer not in the list.
EventLines ==
    {Line(None, "2b", IF n \in {1, 3} THEN Some(ColoredPrefix) ELSE None,
          IF n \in {0, 1} THEN Colored ELSE Plain, n) : n \in NotifyLevels}
    \cup {Line(None, "1a", None, Colored, 1), Line(None, UnknownPtr, None, Plain, 1)}

\* Rows of backlog_lines and scrollback_lines replies, newest first.
RowA1 == Line(Some("a1"), "1a", Some(ColoredPrefix), Plain, 1)
RowA2 == Line(Some("a2"), "1a", None, Colored, 0)
RowB1 == Line(None, "2b", Some(<<"n">>), Plain, 2)
LineReplies == {<<>>, <<RowA2, RowA1>>, <<RowB1>>}

HotRow(buffer, count) == [priority |-> 1, buffer |-> buffer, count |-> count]
HotlistReplies ==
    {<<>>, <<HotRow("2b", <<0, 2, 0, 1>>)>>,
     <<HotRow(UnknownPtr, <<1, 0, 0, 0>>), HotRow("1a", <<0, 0, 1, 0>>)>>}

CompletionRow(list) ==
    [context |-> "auto", base_word |-> "h", pos_start |-> 0, pos_end |-> 0,
     add_space |-> 1, list |-> list]
CompletionReplies == {<<>>, <<CompletionRow(<<"hello">>), CompletionRow(<<"hi">>)>>}

\* A variant whose match arm also takes the _nicklist event.
BufferEventIdsWithNicklist ==
    {"_buffer_opened", "_buffer_closing", "_buffer_renamed", "_buffer_title_changed",
     "_nicklist"}

BufferEventIds ==
    {"_buffer_opened", "_buffer_closing", "_buffer_renamed", "_buffer_title_changed"}

\* A frame's body as decoded: the message id (None for a null id) and the rows.
Frame(id, hda) == [id |-> id, hda |-> hda]

Frames ==
    {Frame(Some("gui_buffers"), r) : r \in BufferLists}
    \cup {Frame(Some("gui_hotlist"), r) : r \in HotlistReplies}
    \cup {Frame(Some(id), r) : id \in {"backlog_lines", "scrollback_lines"}, r \in LineReplies}
    \cup {Frame(Some(id), <<>>) : id \in BufferEventIds}
    \cup {Frame(Some("_buffer_line_added"), <<l>>) : l \in EventLines}
    \cup {Frame(Some("completion"), r) : r \in CompletionReplies}
    \cup {Frame(Some("_nicklist"), <<>>), Frame(None, <<>>)}

BufferNames == {"core.weechat", "irc.chan"}
Scrolls == {0, 1}
UserCommands == {<<"sync", "sync">>, <<"", "input 0x1a hi">>}

(* ---------------------------------------------------------- session state *)
VARIABLES
    current_buffer,  \* Wee.current_buffer
    bufs,            \* Wee.bufs
    buf_lines,       \* Wee.buf_lines
    send_queue,      \* Wee.send_queue: the commands queued and not yet received
    completion,      \* Wee.completion
    is_scrolling,    \* Wee.is_scrolling
    stream_in,       \* bytes that have arrived and the client has not read
    in_flight,       \* the rest of the frame the server is sending
    stream_out,      \* what the client has written, one entry per write
    pc,              \* where the caller's current run() turn stands
    hdr,             \* length bytes held by the turn's read_u32
    ev,              \* the step just taken and its input
    enq,             \* every item queued so far
    lost,            \* inbound bytes read by a read_u32 that was then dropped
    frames_left,     \* frames the server may still send
    ops_left,        \* operations the caller may still invoke
    ui_input,        \* Ui.input, the composer: LineEdit.data and LineEdit.cursor
    asked            \* the completion requests queued so far

session == <<current_buffer, bufs, buf_lines, send_queue, completion, is_scrolling>>
transport == <<stream_in, in_flight, stream_out, pc, hdr>>
vars == <<current_buffer, bufs, buf_lines, send_queue, completion, is_scrolling,
          stream_in, in_flight, stream_out, pc, hdr, ev, enq, lost, frames_left, ops_left,
          ui_input, asked>>

\* LineEdit::new
LineEditNew == [data |-> <<>>, cursor |-> 0]

\* messages.rs default_hotlist
default_hotlist == <<0, 0, 0, 0>>

\* A row of gui_buffers as the Buffer it deserializes to.
MkBuffer(row) ==
    [ptr_buffer |-> row.ptr_buffer, number |-> row.number,
     short_name |-> row.short_name, full_name |-> row.full_name,
     title |-> row.title, hotlist |-> default_hotlist]

\* iter().find / iter_mut().find: the least of the matching indices, 0 when
\* nothing matches.
FirstIdx(matching) ==
    IF matching = {} THEN 0
    ELSE CHOOSE i \in matching : \A j \in matching : i <= j

\* Wee::get_current_buffer over a buffer list and a current name.
GetCurrentBuffer(bs, name) ==
    LET i == FirstIdx({j \in DOMAIN bs : bs[j].full_name = name})
    IN IF i = 0 THEN None ELSE Some(bs[i])

get_current_buffer == GetCurrentBuffer(bufs, current_buffer)

\* A variant that asks for the backlog of the first buffer of the list.
SwitchEnqueueFirst(bs, full_name) ==
    IF bs = <<>> THEN <<>> ELSE <<BacklogMsg(bs[1].ptr_buffer)>>

\* What switch_current_buffer(full_name) queues, given the buffer list.
SwitchEnqueue(bs, full_name) ==
    LET cur == GetCurrentBuffer(bs, full_name)
    IN IF cur # None THEN <<BacklogMsg(cur[1].ptr_buffer)>> ELSE <<>>

\* The session connect() returns, with the budgets of a run.
Start(frames, ops) ==
    /\ current_buffer = ""
    /\ bufs = <<>>
    /\ buf_lines = <<>>
    /\ send_queue = <<>>
    /\ completion = None
    /\ is_scrolling = FALSE
    /\ stream_in = <<>>
    /\ in_flight = <<>>
    /\ stream_out = <<>>
    /\ pc = "idle"
    /\ hdr = <<>>
    /\ ev = [op |-> "connect"]
    /\ enq = <<>>
    /\ lost = 0
    /\ frames_left = frames
    /\ ops_left = ops
    /\ ui_input = LineEditNew
    /\ asked = {}

Init == Start(MaxFrames, MaxOps)

InitIO == Start(MaxFramesIO, MaxOpsIO)

\* A variant that keeps the counters of the buffers it already knew.
BuffersFromRowsKeepHot(rows) ==
    [i \in DOMAIN rows |->
        LET k == FirstIdx({j \in DOMAIN bufs : bufs[j].ptr_buffer = rows[i].ptr_buffer})
        IN IF k = 0 THEN MkBuffer(rows[i])
           ELSE [MkBuffer(rows[i]) EXCEPT !.hotlist = bufs[k].hotlist]]

(* ------------------------------------------------------------ handle_one *)
\* gui_buffers: the buffer list is replaced by the received rows.
BuffersFromRows(rows) == [i \in DOMAIN rows |-> MkBuffer(rows[i])]

\* A variant that leaves the old counters in place.
ClearHotlistSkipped(bs) == bs

\* gui_hotlist: clear existing hotlist.
ClearHotlist(bs) == [i \in DOMAIN bs |-> [bs[i] EXCEPT !.hotlist = <<0, 0, 0, 0>>]]

\* gui_hotlist: one row copied onto the first buffer with the row's pointer.
SetHot(bs, hot) ==
    LET i == FirstIdx({j \in DOMAIN bs : bs[j].ptr_buffer = hot.buffer})
    IN IF i = 0 THEN bs ELSE [bs EXCEPT ![i].hotlist = hot.count]

RECURSIVE ApplyHotlist(_, _)
ApplyHotlist(bs, rows) ==
    IF rows = <<>> THEN bs ELSE ApplyHotlist(SetHot(bs, Head(rows)), Tail(rows))

\* A variant that pushes each row at the back of the cache instead of
\* inserting it at index 0.
InsertRowsAppend(lines, rows) ==
    lines \o [i \in 1..Len(rows) |-> StripLine(rows[i])]

\* The loop `for l in bl.hda { strip; buf_lines.insert(0, l) }` over lines:
\* row i of n ends at index n + 1 - i, in front of what lines held.
InsertRows(lines, rows) ==
    [i \in 1..Len(rows) |-> StripLine(rows[Len(rows) + 1 - i])] \o lines

\* A variant that marks the buffer as read without refreshing the hotlist.
MarkReadOnly(rows, scrolling) ==
    IF Len(rows) > 0 /\ ~scrolling
    THEN <<MarkReadMsg(rows[1].buffer)>>
    ELSE <<>>

\* A variant that marks the buffer as read whether or not a scrollback is
\* in progress.
MarkReadAlways(rows, scrolling) ==
    IF Len(rows) > 0
    THEN <<MarkReadMsg(rows[1].buffer), HotlistMsg>>
    ELSE <<>>

\* backlog_lines / scrollback_lines: mark buffer as read.
MarkReadEnqueue(rows, scrolling) ==
    IF Len(rows) > 0 /\ ~scrolling
    THEN <<MarkReadMsg(rows[1].buffer), HotlistMsg>>
    ELSE <<>>

\* A variant that counts every line in the first slot, whatever its level.
IncHotlistLow(h, notify_level) == [h EXCEPT ![1] = @ + 1]

\* _buffer_line_added: increment hotlist.
IncHotlist(h, notify_level) ==
    CASE notify_level = 0 -> [h EXCEPT ![1] = @ + 1]
      [] notify_level = 1 -> [h EXCEPT ![2] = @ + 1]
      [] notify_level = 2 -> [h EXCEPT ![3] = @ + 1]
      [] notify_level = 3 -> [h EXCEPT ![4] = @ + 1]
      [] OTHER -> h

\* _buffer_line_added: the first buffer with the line's pointer (0: none).
LineTarget(bs, line) ==
    FirstIdx({j \in DOMAIN bs : bs[j].ptr_buffer = line.buffer})

\* A variant that compares the names with != and caches the lines of the
\* buffers that are not current.
LineIsCachedOther(bs, line, current, scrolling) ==
    LET i == LineTarget(bs, line)
    IN i # 0 /\ bs[i].full_name # current /\ ~scrolling

\* A variant that caches lines of the current buffer during a scrollback
\* too.
LineIsCachedWhileScrolling(bs, line, current, scrolling) ==
    LET i == LineTarget(bs, line)
    IN i # 0 /\ bs[i].full_name = current

\* _buffer_line_added: whether the line goes to the cache.
LineIsCached(bs, line, current, scrolling) ==
    LET i == LineTarget(bs, line)
    IN i # 0 /\ bs[i].full_name = current /\ ~scrolling

\* A variant that inserts the line at the front of the cache.
LinesAfterLineAddedFront(lines, bs, line, current, scrolling) ==
    IF LineIsCached(bs, line, current, scrolling)
    THEN <<StripLine(line)>> \o lines
    ELSE lines

LinesAfterLineAdded(lines, bs, line, current, scrolling) ==
    IF LineIsCached(bs, line, current, scrolling)
    THEN Append(lines, StripLine(line))
    ELSE lines

BufsAfterLineAdded(bs, line, current, scrolling) ==
    LET i == LineTarget(bs, line)
    IN IF i = 0 \/ LineIsCached(bs, line, current, scrolling) THEN bs
       ELSE [bs EXCEPT ![i].hotlist = IncHotlist(@, line.notify_level)]

\* A variant that asks for the hotlist before the buffer list.
BufferEventEnqueueHotlistFirst == <<HotlistMsg, BuffersMsg>>

\* The buffer events: self.buffers() then self.hotlist().
BufferEventEnqueue == <<BuffersMsg, HotlistMsg>>

\* Sender::send on the unbounded queue (enq records it).
Enqueue(items) ==
    /\ send_queue' = send_queue \o items
    /\ enq' = enq \o items

\* A frame whose body is not of the shape its id calls for (a column the
\* record requires is missing, say): de::from_bytes returns this error.
BadFrame(id, err) == [id |-> id, hda |-> <<>>, err |-> err]

\* Whether handle_one returns an error for the frame: `from_bytes(..)?` in
\* the arms that decode the body into a typed record.  The arms of the
\* buffer events and of the other ids decode nothing.
HandleFails(f) ==
    /\ "err" \in DOMAIN f
    /\ f.id \in {Some(id) : id \in {"gui_buffers", "gui_hotlist", "backlog_lines",
                                    "scrollback_lines", "_buffer_line_added",
                                    "completion"}}

\* The session when handle_one returns the error: the lines arm has set
\* is_scrolling and cleared the cache before it decodes.
handle_one_err(f) ==
    /\ IF f.id \in {Some("backlog_lines"), Some("scrollback_lines")}
       THEN /\ is_scrolling' = (f.id = Some("scrollback_lines"))
            /\ buf_lines' = <<>>
       ELSE UNCHANGED <<is_scrolling, buf_lines>>
    /\ Enqueue(<<>>)
    /\ UNCHANGED <<current_buffer, bufs, completion>>

\* Whether handling the frame panics in strip_colors (the body is decoded
\* before any line is stripped).
HandlePanics(f) ==
    /\ ~HandleFails(f)
    /\ \/ /\ f.id \in {Some("backlog_lines"), Some("scrollback_lines")}
          /\ \E i \in DOMAIN f.hda : ~StripOk(f.hda[i])
       \/ /\ f.id = Some("_buffer_line_added")
          /\ LineIsCached(bufs, f.hda[1], current_buffer, is_scrolling)
          /\ ~StripOk(f.hda[1])

\* The match of handle_one on the message id: the session after the frame.
handle_one(f) ==
    CASE f.id = Some("gui_buffers") ->
            /\ bufs' = BuffersFromRows(f.hda)
            /\ Enqueue(<<>>)
            /\ UNCHANGED <<current_buffer, buf_lines, completion, is_scrolling>>
      [] f.id = Some("gui_hotlist") ->
            /\ bufs' = ApplyHotlist(ClearHotlist(bufs), f.hda)
            /\ IF current_buffer = ""
               THEN /\ current_buffer' = "core.weechat"
                    /\ Enqueue(SwitchEnqueue(bufs', "core.weechat"))
               ELSE /\ Enqueue(<<>>)
                    /\ UNCHANGED current_buffer
            /\ UNCHANGED <<buf_lines, completion, is_scrolling>>
      [] f.id \in {Some("backlog_lines"), Some("scrollback_lines")} ->
            /\ is_scrolling' = (f.id = Some("scrollback_lines"))
            /\ Enqueue(MarkReadEnqueue(f.hda, is_scrolling'))
            /\ buf_lines' = InsertRows(<<>>, f.hda)
            /\ UNCHANGED <<current_buffer, bufs, completion>>
      [] f.id \in {Some(id) : id \in BufferEventIds} ->
            /\ Enqueue(BufferEventEnqueue)
            /\ UNCHANGED <<current_buffer, bufs, buf_lines, completion, is_scrolling>>
      [] f.id = Some("_buffer_line_added") ->
            /\ buf_lines' = LinesAfterLineAdded(buf_lines, bufs, f.hda[1],
                                                current_buffer, is_scrolling)
            /\ bufs' = BufsAfterLineAdded(bufs, f.hda[1], current_buffer, is_scrolling)
            /\ Enqueue(<<>>)
            /\ UNCHANGED <<current_buffer, completion, is_scrolling>>
      [] f.id = Some("completion") ->
            /\ completion' = IF Len(f.hda) > 0 THEN Some(f.hda[1]) ELSE completion
            /\ Enqueue(<<>>)
            /\ UNCHANGED <<current_buffer, bufs, buf_lines, is_scrolling>>
      [] OTHER ->
            /\ Enqueue(<<>>)
            /\ UNCHANGED <<current_buffer, bufs, buf_lines, completion, is_scrolling>>

(* ------------------------------------------------------ public operations *)
\* The caller holds no run() future while it invokes an operation: run()
\* borrows the session mutably.
Op ==
    /\ pc = "idle"
    /\ ops_left > 0
    /\ ops_left' = ops_left - 1
    /\ UNCHANGED <<stream_in, in_flight, stream_out, hdr, lost, frames_left>>
    /\ UNCHANGED <<ui_input, asked>>

send(id, command) ==
    /\ Op
    /\ Enqueue(<<SendMsg(id, command)>>)
    /\ ev' = [op |-> "send", id |-> id, command |-> command]
    /\ UNCHANGED <<current_buffer, bufs, buf_lines, completion, is_scrolling, pc>>

buffers ==
    /\ Op
    /\ Enqueue(<<BuffersMsg>>)
    /\ ev' = [op |-> "buffers"]
    /\ UNCHANGED <<current_buffer, bufs, buf_lines, completion, is_scrolling, pc>>

hotlist ==
    /\ Op
    /\ Enqueue(<<HotlistMsg>>)
    /\ ev' = [op |-> "hotlist"]
    /\ UNCHANGED <<current_buffer, bufs, buf_lines, completion, is_scrolling, pc>>

\* ev records the name that was current before the call.
switch_current_buffer(full_name) ==
    /\ Op
    /\ current_buffer' = full_name
    /\ Enqueue(SwitchEnqueue(bufs, full_name))
    /\ ev' = [op |-> "switch_current_buffer", full_name |-> full_name,
              old |-> current_buffer]
    /\ UNCHANGED <<bufs, buf_lines, completion, is_scrolling, pc>>

\* A variant that indexes with len - scroll, one line too late.
ScrollLineOffByOne(lines, scroll) ==
    LET idx == IF Len(lines) >= scroll THEN Len(lines) - scroll ELSE 0
    IN IF idx < Len(lines) THEN idx + 1 ELSE 0

\* The line scroll_back(scroll) selects: buf_lines.get(len.checked_sub(1 +
\* scroll).unwrap_or_default()), as a 1-based index (0: get returned None).
ScrollLine(lines, scroll) ==
    LET idx == IF Len(lines) >= 1 + scroll THEN Len(lines) - (1 + scroll) ELSE 0
    IN IF idx < Len(lines) THEN idx + 1 ELSE 0

\* What scroll_back queues for the selected line.
ScrollEnqueue(line) == <<ScrollbackMsg(line.ptr_line[1])>>

\* With a selected line that has no ptr_line, scroll_back calls
\* switch_current_buffer(&self.current_buffer.borrow()): the replace() inside
\* finds the RefCell borrowed and panics.
scroll_back(scroll) ==
    /\ Op
    /\ ev' = [op |-> "scroll_back", scroll |-> scroll]
    /\ LET i == ScrollLine(buf_lines, scroll) IN
       IF i = 0 THEN Enqueue(<<>>) /\ UNCHANGED pc
       ELSE IF buf_lines[i].ptr_line # None
            THEN Enqueue(ScrollEnqueue(buf_lines[i])) /\ UNCHANGED pc
            ELSE Enqueue(<<>>) /\ pc' = "panic"
    /\ UNCHANGED <<current_buffer, bufs, buf_lines, completion, is_scrolling>>

close ==
    /\ Op
    /\ Enqueue(<<CloseSentinel>>)
    /\ ev' = [op |-> "close"]
    /\ UNCHANGED <<current_buffer, bufs, buf_lines, completion, is_scrolling, pc>>

\* A variant that returns the payload without emptying the slot.
consume_completion_peek ==
    /\ Op
    /\ Enqueue(<<>>)
    /\ ev' = [op |-> "consume_completion", result |-> completion]
    /\ UNCHANGED <<current_buffer, bufs, buf_lines, completion, is_scrolling, pc>>

consume_completion ==
    /\ Op
    /\ completion' = None
    /\ Enqueue(<<>>)
    /\ ev' = [op |-> "consume_completion", result |-> completion]
    /\ UNCHANGED <<current_buffer, bufs, buf_lines, is_scrolling, pc>>

(* -------------------------------------------------------------- the server *)
LenByte(i) == [t |-> "len", i |-> i]
Header == [i \in 1..HdrLen |-> LenByte(i)]
Body(comp, msg) == [t |-> "body", comp |-> comp, msg |-> msg]
FrameBytes(comp, msg) == Header \o <<Body(comp, msg)>>

\* The process is gone after a panic, and reads nothing it can use once the
\* stream is out of sync.
Dead == {"panic", "desync"}

\* The server starts to send one more frame.
ServerSend(comp, msg) ==
    /\ pc \notin Dead
    /\ frames_left > 0
    /\ in_flight = <<>>
    /\ frames_left' = frames_left - 1
    /\ in_flight' = FrameBytes(comp, msg)
    /\ UNCHANGED <<session, stream_in, stream_out, pc, hdr, ev, enq, lost, ops_left>>
    /\ UNCHANGED <<ui_input, asked>>

\* n more bytes of the frame reach the client.
Arrive(n) ==
    /\ pc \notin Dead
    /\ stream_in' = stream_in \o SubSeq(in_flight, 1, n)
    /\ in_flight' = SubSeq(in_flight, n + 1, Len(in_flight))
    /\ UNCHANGED <<session, stream_out, pc, hdr, ev, enq, lost, frames_left, ops_left>>
    /\ UNCHANGED <<ui_input, asked>>

(* ------------------------------------------------------------- Wee::run *)
\* The caller creates a run() future and polls it: the turn is in select!.
RunStart ==
    /\ pc = "idle"
    /\ pc' = "select"
    /\ UNCHANGED <<session, stream_in, in_flight, stream_out, hdr, ev, enq, lost,
                   frames_left, ops_left>>
    /\ UNCHANGED <<ui_input, asked>>

\* read_u32: read_exact takes the bytes that have arrived, up to four in all.
\* In select! a read that is not complete stays pending; in the drain loop
\* (block_on) it blocks.  Four bytes that are not one frame's length prefix
\* leave the stream out of sync.
read_u32(at) ==
    /\ pc = at
    /\ stream_in # <<>>
    /\ LET n == Min(Len(stream_in), HdrLen - Len(hdr))
           h == hdr \o SubSeq(stream_in, 1, n)
       IN /\ stream_in' = SubSeq(stream_in, n + 1, Len(stream_in))
          /\ IF Len(h) < HdrLen
             THEN hdr' = h /\ pc' = at
             ELSE hdr' = <<>> /\ pc' = IF h = Header THEN "body" ELSE "desync"
    /\ UNCHANGED <<session, in_flight, stream_out, ev, enq, lost, frames_left, ops_left>>
    /\ UNCHANGED <<ui_input, asked>>

\* A variant of the turn that goes back to select! after the last buffered frame.
AfterFrameSelect(buffered) == IF buffered > 0 THEN "drain" ELSE "select"

\* The turn's position after a frame: the loop goes on while the transport
\* reports buffered bytes.
AfterFrame(buffered) == IF buffered > 0 THEN "drain" ELSE "idle"

\* block_on(handle_one(len))?: the compression byte and the body are read and
\* the frame is dispatched.  A non-zero compression byte fails the assert_eq;
\* an error of the handler is the error of the turn.
HandleFrame ==
    /\ pc = "body"
    /\ stream_in # <<>>
    /\ LET b == Head(stream_in) IN
       /\ stream_in' = Tail(stream_in)
       /\ ev' = [op |-> "handle_one", comp |-> b.comp, frame |-> b.msg]
       /\ IF b.comp # 0 \/ HandlePanics(b.msg)
          THEN /\ pc' = "panic"
               /\ UNCHANGED <<session, enq>>
          ELSE IF HandleFails(b.msg)
          THEN /\ handle_one_err(b.msg)
               /\ pc' = "error"
          ELSE /\ handle_one(b.msg)
               /\ pc' = AfterFrame(Len(stream_in'))
    /\ UNCHANGED <<in_flight, stream_out, hdr, lost, frames_left, ops_left>>
    /\ UNCHANGED <<ui_input, asked>>

\* What the outbound branch writes for the item select! received.
FirstWrite(outgoing) == IF Len(outgoing) = 0 THEN QuitMsg ELSE outgoing

\* A variant of the drain loop that pops from the back of the queue.
RECURSIVE Reverse(_)
Reverse(s) == IF s = <<>> THEN <<>> ELSE Append(Reverse(Tail(s)), Head(s))

DrainWritesReversed(queue) == Reverse(queue)

\* What the loop `while !send_queue.is_empty()` writes: every queued item.
DrainWrites(queue) == queue

\* The outbound branch of select!: recv() returned an item.  Whatever the
\* read_u32 of this select! had read is dropped with it.  The write of a
\* command is under block_on, and so is the drain loop; the write of the
\* quit message is awaited.
RecvOutgoing ==
    /\ pc = "select"
    /\ send_queue # <<>>
    /\ LET outgoing == Head(send_queue) IN
       /\ IF Len(outgoing) = 0
          THEN /\ pc' = "quit"
               /\ send_queue' = Tail(send_queue)
               /\ UNCHANGED stream_out
          ELSE /\ pc' = "idle"
               /\ send_queue' = <<>>
               /\ stream_out' = stream_out \o <<FirstWrite(outgoing)>>
                                    \o DrainWrites(Tail(send_queue))
    /\ lost' = lost + Len(hdr)
    /\ hdr' = <<>>
    /\ UNCHANGED <<current_buffer, bufs, buf_lines, completion, is_scrolling,
                   stream_in, in_flight, ev, enq, frames_left, ops_left>>
    /\ UNCHANGED <<ui_input, asked>>

\* The awaited write of the quit message completes; the drain loop follows.
WriteQuit ==
    /\ pc = "quit"
    /\ pc' = "idle"
    /\ stream_out' = stream_out \o <<FirstWrite(CloseSentinel)>> \o DrainWrites(send_queue)
    /\ send_queue' = <<>>
    /\ UNCHANGED <<current_buffer, bufs, buf_lines, completion, is_scrolling,
                   stream_in, in_flight, hdr, ev, enq, lost, frames_left, ops_left>>
    /\ UNCHANGED <<ui_input, asked>>

\* The caller's select! takes another branch and drops the run() future
\* while it is pending: in select!, or in the awaited write.
Cancel ==
    /\ pc \in {"select", "quit"}
    /\ pc' = "idle"
    /\ lost' = lost + Len(hdr)
    /\ hdr' = <<>>
    /\ UNCHANGED <<session, stream_in, in_flight, stream_out, ev, enq, frames_left, ops_left>>
    /\ UNCHANGED <<ui_input, asked>>

\* One inbound turn over a quiet transport: the turn starts with nothing
\* buffered, exactly one frame arrives whole, read_u32 completes in select!,
\* handle_one handles the frame, nothing else is buffered and run() returns.
InboundTurn(comp, msg) ==
    /\ pc = "idle"
    /\ stream_in = <<>>
    /\ in_flight = <<>>
    /\ frames_left > 0
    /\ frames_left' = frames_left - 1
    /\ ev' = [op |-> "handle_one", comp |-> comp, frame |-> msg]
    /\ IF comp # 0 \/ HandlePanics(msg)
       THEN /\ pc' = "panic"
            /\ UNCHANGED <<session, enq>>
       ELSE IF HandleFails(msg)
       THEN /\ handle_one_err(msg)
            /\ pc' = "error"
       ELSE /\ handle_one(msg)
            /\ pc' = AfterFrame(0)
    /\ UNCHANGED <<stream_in, in_flight, stream_out, hdr, lost, ops_left>>
    /\ UNCHANGED <<ui_input, asked>>

\* The buffers and the line cache: the caller's operations on them and the
\* inbound turns that carry buffer lists, lines and line events.
LineFrames ==
    {Frame(Some("gui_buffers"), <<RowCore, RowChan>>)}
    \cup {Frame(Some(id), r) : id \in {"backlog_lines", "scrollback_lines"}, r \in LineReplies}
    \cup {Frame(Some("_buffer_line_added"), <<l>>) : l \in EventLines}

\* The relay answers requests: it sends a backlog_lines reply only after a
\* backlog request for the buffer of its rows (any buffer when it has no
\* row), and a scrollback_lines reply only after a scrollback request.
\* Buffer lists and events come unasked (the caller has synced).
Solicited(f) ==
    CASE f.id = Some("backlog_lines") ->
            \E i \in DOMAIN enq :
                /\ enq[i] \in {BacklogMsg(r.ptr_buffer) : r \in {RowCore, RowChan}}
                /\ f.hda # <<>> => enq[i] = BacklogMsg(f.hda[1].buffer)
      [] f.id = Some("scrollback_lines") ->
            \E i \in DOMAIN enq :
                enq[i] \in {ScrollbackMsg(p) : p \in {"a1", "a2"}}
      [] OTHER -> TRUE

Next ==
    \/ \E name \in BufferNames : switch_current_buffer(name)
    \/ \E k \in Scrolls : scroll_back(k)
    \/ \E f \in LineFrames : Solicited(f) /\ InboundTurn(0, f)

Spec == Init /\ [][Next]_vars

\* A full cache: a backlog_lines reply with as many rows as the request of
\* switch_current_buffer asks for, then line events.
FullReply == [i \in 1..BUFFER_CACHE_SIZE |-> Line(Some("a1"), "1a", None, Plain, 0)]

CacheFrames ==
    {Frame(Some("gui_buffers"), <<RowCore, RowChan>>),
     Frame(Some("backlog_lines"), FullReply)}
    \cup {Frame(Some("_buffer_line_added"), <<l>>) : l \in EventLines}

NextCache ==
    \/ \E name \in BufferNames : switch_current_buffer(name)
    \/ \E f \in CacheFrames : Solicited(f) /\ InboundTurn(0, f)

SpecCache == Init /\ [][NextCache]_vars

\* The buffer list: the caller switching buffers, asking for the list and the
\* hotlist and taking the completion; buffer lists, hotlists, buffer events,
\* completions and frames with other ids arriving.
BufFrames ==
    {Frame(Some("gui_buffers"), r) : r \in BufferLists}
    \cup {Frame(Some("gui_hotlist"), r) : r \in HotlistReplies}
    \cup {Frame(Some(id), <<>>) : id \in BufferEventIds}
    \cup {Frame(Some("completion"), r) : r \in CompletionReplies}
    \cup {Frame(Some("_nicklist"), <<>>), Frame(None, <<>>)}

NextBuf ==
    \/ \E name \in BufferNames : switch_current_buffer(name)
    \/ buffers
    \/ hotlist
    \/ consume_completion
    \/ \E f \in BufFrames : InboundTurn(0, f)

SpecBuf == Init /\ [][NextBuf]_vars

\* The transport: run() turns step by step, the server's bytes arriving in
\* pieces, the caller cancelling pending turns.
FramesIO ==
    {Frame(Some("backlog_lines"), <<RowA2, RowA1>>),
     Frame(Some("_buffer_opened"), <<>>)}

NextIO ==
    \/ send("sync", "sync")
    \/ close
    \/ \E f \in FramesIO : ServerSend(0, f)
    \/ \E n \in 1..Len(in_flight) : Arrive(n)
    \/ RunStart
    \/ read_u32("select")
    \/ read_u32("drain")
    \/ HandleFrame
    \/ RecvOutgoing
    \/ WriteQuit
    \/ Cancel

SpecIO == InitIO /\ [][NextIO]_vars

(* ------------------------------------------------- errors and the main loop *)
\* read_u32 in select! fails (`len?`): the server has closed the connection
\* and read_exact returns an I/O error, which run() returns.
InboundEof ==
    /\ pc = "idle"
    /\ stream_in = <<>>
    /\ in_flight = <<>>
    /\ pc' = "error"
    /\ ev' = [op |-> "run", err |-> "IOError"]
    /\ UNCHANGED <<session, stream_in, in_flight, stream_out, hdr, enq, lost,
                   frames_left, ops_left>>
    /\ UNCHANGED <<ui_input, asked>>

\* The error run() has returned to the main loop.
RunError == IF ev.op = "handle_one" THEN "PacketError" ELSE ev.err

\* A variant of the main loop that logs the error of a turn and goes on.
FatalIgnored ==
    /\ pc = "error"
    /\ pc' = "idle"
    /\ ev' = [op |-> "log", err |-> RunError]
    /\ UNCHANGED <<session, stream_in, in_flight, stream_out, hdr, enq, lost,
                   frames_left, ops_left>>
    /\ UNCHANGED <<ui_input, asked>>

\* main.rs: `incoming?` ends the loop and run(conf) with the error of the
\* turn; main logs it, prints "Fatal error" and calls exit(2).
Fatal ==
    /\ pc = "error"
    /\ pc' = "exited"
    /\ ev' = [op |-> "exit", code |-> 2, err |-> RunError]
    /\ UNCHANGED <<session, stream_in, in_flight, stream_out, hdr, enq, lost,
                   frames_left, ops_left>>
    /\ UNCHANGED <<ui_input, asked>>

\* The compression byte of a frame: 0 is no compression.
CompBytes == {0, 1}

\* Frames that are handled, and frames whose body does not decode.
ErrFrames ==
    {Frame(Some("gui_buffers"), <<RowCore, RowChan>>),
     Frame(Some("backlog_lines"), <<RowA2, RowA1>>),
     Frame(Some("_buffer_line_added"), <<RowA1>>),
     Frame(Some("_buffer_opened"), <<>>)}
    \cup {BadFrame(Some(id), "Message") :
            id \in {"gui_buffers", "backlog_lines", "_buffer_line_added", "_buffer_opened"}}

InitErr == Start(MaxFramesErr, MaxOpsErr)

NextErr ==
    \/ \E name \in BufferNames : switch_current_buffer(name)
    \/ \E comp \in CompBytes, f \in ErrFrames : Solicited(f) /\ InboundTurn(comp, f)
    \/ InboundEof
    \/ Fatal

SpecErr == InitErr /\ [][NextErr]_vars

(* ------------------------------------------------------ connect and auth *)
\* Text that is built and taken apart character by character is a sequence
\* of one-character strings.
HexDigits == <<"0", "1", "2", "3", "4", "5", "6", "7", "8", "9", "a", "b", "c", "d", "e", "f">>
HexUpper == <<"0", "1", "2", "3", "4", "5", "6", "7", "8", "9", "A", "B", "C", "D", "E", "F">>

\* hex::encode: two lower-case digits for each byte.
RECURSIVE hex_encode(_)
hex_encode(bytes) ==
    IF bytes = <<>> THEN <<>>
    ELSE <<HexDigits[(Head(bytes) \div 16) + 1], HexDigits[(Head(bytes) % 16) + 1]>>
         \o hex_encode(Tail(bytes))

\* The value of a hexadecimal digit of either case, -1 for any other character.
Nibble(c) ==
    IF \E i \in 1..16 : HexDigits[i] = c
    THEN (CHOOSE i \in 1..16 : HexDigits[i] = c) - 1
    ELSE IF \E i \in 1..16 : HexUpper[i] = c
    THEN (CHOOSE i \in 1..16 : HexUpper[i] = c) - 1
    ELSE -1

IsHex(text) == Len(text) % 2 = 0 /\ \A i \in DOMAIN text : Nibble(text[i]) >= 0

\* hex::decode(..).unwrap(): the bytes of a text of hexadecimal digit pairs;
\* the unwrap panics on a text of odd length or with another character
\* (~IsHex).
hex_decode(text) ==
    [i \in 1..(Len(text) \div 2) |->
        16 * Nibble(text[2 * i - 1]) + Nibble(text[2 * i])]

\* str::as_bytes: the bytes of ASCII text.
Ascii ==
    "a" :> 97 @@ "b" :> 98 @@ "c" :> 99 @@ "d" :> 100 @@ "e" :> 101 @@ "f" :> 102 @@
    "g" :> 103 @@ "h" :> 104 @@ "i" :> 105 @@ "j" :> 106 @@ "k" :> 107 @@
    "l" :> 108 @@ "m" :> 109 @@ "n" :> 110 @@ "o" :> 111 @@ "p" :> 112 @@
    "q" :> 113 @@ "r" :> 114 @@ "s" :> 115 @@ "t" :> 116 @@ "u" :> 117 @@
    "v" :> 118 @@ "w" :> 119 @@ "x" :> 120 @@ "y" :> 121 @@ "z" :> 122 @@
    "0" :> 48 @@ "1" :> 49 @@ "2" :> 50 @@ "3" :> 51 @@ "4" :> 52 @@ "5" :> 53 @@
    "6" :> 54 @@ "7" :> 55 @@ "8" :> 56 @@ "9" :> 57 @@ "_" :> 95 @@ ":" :> 58 @@
    "," :> 44 @@ "/" :> 47 @@ "." :> 46 @@ "#" :> 35 @@ " " :> 32 @@ "=" :> 61
as_bytes(text) == [i \in DOMAIN text |-> Ascii[text[i]]]

\* openssl's Hasher stands outside the program: a digest is a fixed function
\* of the algorithm and of the bytes fed to it in order, of size/128 bytes
\* here.
RECURSIVE Absorb(_, _)
Absorb(h, bytes) ==
    IF bytes = <<>> THEN h
    ELSE Absorb((h * 31 + Head(bytes) + 1) % 65536, Tail(bytes))

Digest(size, bytes) ==
    LET h == Absorb(IF size = "256" THEN 256 ELSE 512, bytes)
    IN IF size = "256" THEN <<h \div 256, h % 256>>
       ELSE <<h \div 256, h % 256, (h \div 16) % 256, (h * 7) % 256>>

\* auth::SUPPORTED_HASHES, as the names it lists.
SUPPORTED_HASHES == <<"plain", "sha256", "sha512">>

\* Algo::from(&Handshake): the match on password_hash_algo, whose last arm
\* is unimplemented!().
AlgoFrom(h) ==
    CASE h.password_hash_algo = "plain" -> [algo |-> "Plain"]
      [] h.password_hash_algo \in {"sha256", "sha512"} ->
            [algo |-> "Sha", nonce |-> h.nonce,
             size |-> IF h.password_hash_algo = "sha256" THEN "256" ELSE "512"]
      [] OTHER -> [algo |-> "unimplemented!"]

SizeText(size) == IF size = "256" THEN <<"2", "5", "6">> ELSE <<"5", "1", "2">>

PasswordEq ==
    <<"p", "a", "s", "s", "w", "o", "r", "d", "=">>
PasswordHashEqSha ==
    <<"p", "a", "s", "s", "w", "o", "r", "d", "_", "h", "a", "s", "h", "=", "s", "h",
      "a">>

\* A variant that feeds the password to the hasher before the nonces.
HashInputPasswordFirst(nonce, c_nonce, password) ==
    as_bytes(password) \o hex_decode(nonce) \o c_nonce

\* The three updates of the hasher: the decoded server nonce, the client
\* nonce, the password.
HashInput(nonce, c_nonce, password) ==
    hex_decode(nonce) \o c_nonce \o as_bytes(password)

\* auth::_create_auth, with the bytes rand() filled in.
create_auth(algo, password, c_nonce) ==
    IF algo.algo = "Plain" THEN PasswordEq \o password
    ELSE PasswordHashEqSha \o SizeText(algo.size) \o <<":">>
         \o algo.nonce \o hex_encode(c_nonce) \o <<":">>
         \o hex_encode(Digest(algo.size, HashInput(algo.nonce, c_nonce, password)))

HandshakeMsg ==
    <<"(", "h", "a", "n", "d", "s", "h", "a", "k", "e", ")", " ", "h", "a", "n", "d",
      "s", "h", "a", "k", "e", " ", "c", "o", "m", "p", "r", "e", "s", "s", "i", "o",
      "n", "=", "o", "f", "f", ",", "p", "a", "s", "s", "w", "o", "r", "d", "_", "h",
      "a", "s", "h", "_", "a", "l", "g", "o", "=", "p", "l", "a", "i", "n", ":", "s",
      "h", "a", "2", "5", "6", ":", "s", "h", "a", "5", "1", "2", "\n">>
InitMsg(auth) == <<"i", "n", "i", "t", " ">> \o auth \o <<"\n">>
VersionCheckMsg ==
    <<"(", "v", "e", "r", "s", "i", "o", "n", "_", "c", "h", "e", "c", "k", ")", " ",
      "i", "n", "f", "o", " ", "v", "e", "r", "s", "i", "o", "n", "\n">>

\* The errors get_message can return: an I/O error of read_exact (the
\* connection was closed: UnexpectedEof) or an error of de::from_bytes.
IoEof == [t |-> "IOError", kind |-> "UnexpectedEof"]
PacketError(source) == [t |-> "PacketError", source |-> source]
ProtocolError(text) == [t |-> "ProtocolError", text |-> text]

\* The or_else on the version_check reply.
VersionError(e) ==
    IF e = PacketError("Eof")
    THEN ProtocolError("Connection unexpectedly closed. Check password.")
    ELSE e

\* What the relay may answer to the handshake: the algorithm it picked among
\* those offered (none when its own list shares none with them) and its nonce.
Handshakes ==
    [password_hash_algo : {"plain", "sha256", "sha512", ""},
     nonce : {<<"8", "5", "b", "1">>, <<"E", "E", "0", "0", "6", "9">>}]
Passwords == {<<"t", "e", "s", "t">>, <<"f", "o", "o", "b", "a", "r">>}
\* What rand_bytes may put in the seven bytes of the client nonce.
ClientNonces ==
    {<<164, 183, 50, 7, 245, 170, 228>>, <<0, 0, 0, 0, 0, 0, 0>>,
     <<255, 1, 16, 160, 10, 9, 171>>}

\* Wee::connect has built the session and calls auth; ops is the budget of
\* calls the caller makes on the session it gets.
AuthStart(ops) ==
    /\ current_buffer = ""
    /\ bufs = <<>>
    /\ buf_lines = <<>>
    /\ send_queue = <<>>
    /\ completion = None
    /\ is_scrolling = FALSE
    /\ stream_in = <<>>
    /\ in_flight = <<>>
    /\ stream_out = <<>>
    /\ pc = "auth"
    /\ hdr = <<>>
    /\ ev = [op |-> "new"]
    /\ enq = <<>>
    /\ lost = 0
    /\ frames_left = 0
    /\ ops_left = ops
    /\ ui_input = LineEditNew
    /\ asked = {}

InitAuth == AuthStart(0)

Quiet ==
    UNCHANGED <<session, stream_in, in_flight, hdr, enq, lost, frames_left, ops_left,
                ui_input, asked>>

\* A variant that writes init with the handshake, before any reply.
auth_handshake_eager ==
    /\ pc = "auth"
    /\ stream_out' = stream_out
            \o <<HandshakeMsg, InitMsg(create_auth([algo |-> "Plain"], <<"p">>, <<>>))>>
    /\ pc' = "handshake"
    /\ ev' = [op |-> "auth_handshake"]
    /\ Quiet

\* auth writes the handshake command and waits for the reply.
auth_handshake ==
    /\ pc = "auth"
    /\ stream_out' = Append(stream_out, HandshakeMsg)
    /\ pc' = "handshake"
    /\ ev' = [op |-> "auth_handshake"]
    /\ Quiet

\* The handshake reply is read: get_message asserts on the compression
\* byte, Algo::from matches the algorithm, create_auth builds the option,
\* and the init and version_check commands are written.
auth_init(comp, h, password, c_nonce) ==
    /\ pc = "handshake"
    /\ ev' = [op |-> "auth_init", comp |-> comp, handshake |-> h,
              password |-> password, c_nonce |-> c_nonce]
    /\ IF \/ comp # 0
          \/ AlgoFrom(h).algo = "unimplemented!"
          \/ AlgoFrom(h).algo = "Sha" /\ ~IsHex(h.nonce)
       THEN pc' = "panic" /\ UNCHANGED stream_out
       ELSE /\ stream_out' = stream_out
                    \o <<InitMsg(create_auth(AlgoFrom(h), password, c_nonce)),
                         VersionCheckMsg>>
            /\ pc' = "version"
    /\ Quiet

\* The connection is closed where a reply is awaited: read_exact fails in
\* get_message and auth returns the error, for the version_check reply after
\* the or_else has looked at it.
auth_closed ==
    /\ pc \in {"handshake", "version"}
    /\ pc' = "failed"
    /\ ev' = [op |-> "auth_closed", at |-> pc,
              err |-> IF pc = "version" THEN VersionError(IoEof) ELSE IoEof]
    /\ UNCHANGED stream_out
    /\ Quiet

\* The version_check reply is read and connect returns the session.
auth_version(comp) ==
    /\ pc = "version"
    /\ pc' = IF comp # 0 THEN "panic" ELSE "idle"
    /\ ev' = [op |-> "connect"]
    /\ UNCHANGED stream_out
    /\ Quiet

NextAuth ==
    \/ auth_handshake
    \/ \E comp \in CompBytes, h \in Handshakes, password \in Passwords,
          c_nonce \in ClientNonces : auth_init(comp, h, password, c_nonce)
    \/ auth_closed
    \/ \E comp \in CompBytes : auth_version(comp)

SpecAuth == InitAuth /\ [][NextAuth]_vars

\* connect() and the first calls of main.rs on the session it returns: the
\* requests it queues, the close, and the run() turns that write them.
InitConn == AuthStart(MaxOpsConn)

NextConn ==
    \/ NextAuth
    \/ buffers
    \/ send("sync", "sync")
    \/ close
    \/ (send_queue # <<>> /\ RunStart)
    \/ RecvOutgoing
    \/ WriteQuit

SpecConn == InitConn /\ [][NextConn]_vars

(* ------------------------------------------------------------ de.rs *)
\* A message body is a sequence of bytes, 0..255.  The result of a read is
\* the value read and the input that is left, or how the read failed: with
\* one of the errors of de::Error, or "panic" where the code slices or
\* indexes past the end of the input or reaches unimplemented!().
Ok(v, rest) == [st |-> "ok", val |-> v, rest |-> rest]
Fail(st) == [st |-> st, val |-> <<>>, rest |-> <<>>]

Take(in, n) == SubSeq(in, 1, n)
Drop(in, n) == SubSeq(in, n + 1, Len(in))

\* The type markers, the key of the id and the prefix of a pointer key, as
\* their bytes: b"str" is 115 116 114.
T ==
    [str |-> <<115, 116, 114>>,
     buf |-> <<98, 117, 102>>,
     inf |-> <<105, 110, 102>>,
     chr |-> <<99, 104, 114>>,
     int |-> <<105, 110, 116>>,
     lon |-> <<108, 111, 110>>,
     ptr |-> <<112, 116, 114>>,
     tim |-> <<116, 105, 109>>,
     arr |-> <<97, 114, 114>>,
     htb |-> <<104, 116, 98>>,
     hda |-> <<104, 100, 97>>,
     inl |-> <<105, 110, 108>>,
     id |-> <<105, 100>>,
     prefix |-> <<112, 116, 114, 95>>]

\* std::str::from_utf8 on the texts used here, which are ASCII: a byte above
\* 127 does not stand alone in UTF-8.
IsUtf8(bytes) == \A i \in DOMAIN bytes : bytes[i] < 128

\* The length that marks a null string or buffer.
NullLen == <<255, 255, 255, 255>>

\* u32::from_be_bytes, as a length: a value of 2^31 and more is longer than
\* any input.
be_u32(b) ==
    IF b[1] >= 128 THEN 2147483647
    ELSE ((b[1] * 256 + b[2]) * 256 + b[3]) * 256 + b[4]

\* i32::from_be_bytes.
be_i32(b) ==
    (((IF b[1] >= 128 THEN b[1] - 256 ELSE b[1]) * 256 + b[2]) * 256 + b[3]) * 256 + b[4]

\* `val as i8`.
as_i8(b) == IF b >= 128 THEN b - 256 ELSE b

\* DeMessage::read_typ: &self.input[0..3] panics on a shorter input.
read_typ(in) ==
    IF Len(in) < 3 THEN Fail("panic")
    ELSE IF ~IsUtf8(Take(in, 3)) THEN Fail("ExpectedType")
    ELSE Ok(Take(in, 3), Drop(in, 3))

\* The four-byte count of arr, htb and hda: split_at(4) panics on a shorter
\* input.
read_count(in) ==
    IF Len(in) < 4 THEN Fail("panic")
    ELSE Ok(be_u32(Take(in, 4)), Drop(in, 4))

\* DeMessage::read_buf: both split_at panic when the input is shorter than
\* the split point.
read_buf(in) ==
    IF Len(in) < 4 THEN Fail("panic")
    ELSE IF Take(in, 4) = NullLen THEN Ok(None, Drop(in, 4))
    ELSE IF be_u32(Take(in, 4)) > Len(in) - 4 THEN Fail("panic")
    ELSE Ok(Some(SubSeq(in, 5, 4 + be_u32(Take(in, 4)))),
            Drop(in, 4 + be_u32(Take(in, 4))))

\* DeMessage::read_str
read_str(in) ==
    LET r == read_buf(in)
    IN IF r.st = "ok" /\ r.val # None /\ ~IsUtf8(r.val[1]) THEN Fail("BadUTF8") ELSE r

\* DeMessage::read_ptr: the index and the slice panic past the end.
read_ptr(in) ==
    IF Len(in) < 1 THEN Fail("panic")
    ELSE IF in[1] + 1 > Len(in) THEN Fail("panic")
    ELSE IF ~IsUtf8(SubSeq(in, 2, in[1] + 1)) THEN Fail("BadUTF8")
    ELSE Ok(SubSeq(in, 2, in[1] + 1), Drop(in, in[1] + 1))

\* str::split: the pieces between the separators, one empty piece for an
\* empty text.
RECURSIVE Split(_, _)
Split(text, sep) ==
    IF \A i \in DOMAIN text : text[i] # sep THEN <<text>>
    ELSE LET i == CHOOSE j \in DOMAIN text :
                    text[j] = sep /\ \A l \in 1..(j - 1) : text[l] # sep
         IN <<Take(text, i - 1)>> \o Split(Drop(text, i), sep)

Comma == 44
Slash == 47

\* The hda arm: each component of the h-path is the key ptr_<component>.
HPath(h) ==
    IF h = None THEN <<>>
    ELSE LET parts == Split(h[1], Slash)
         IN [i \in DOMAIN parts |-> T.prefix \o parts[i]]

\* A variant that keeps the colon in the name of the column.
KeyTypeWithColon(v) == [name |-> Take(v, Len(v) - 3), typ |-> Drop(v, Len(v) - 3)]

\* The hda arm: a column `name:typ` of the schema is the name before the
\* last four characters and the type in the last three.
KeyType(v) == [name |-> Take(v, Len(v) - 4), typ |-> Drop(v, Len(v) - 3)]

\* v.len() - 4 underflows and the slices panic on a piece under four bytes
\* (three bytes give an index past the start).
KeyTypesPanic(header) ==
    header # None /\ \E i \in DOMAIN Split(header[1], Comma) : Len(Split(header[1], Comma)[i]) < 4

KeyTypes(header) ==
    IF header = None THEN <<>>
    ELSE LET parts == Split(header[1], Comma)
         IN [i \in DOMAIN parts |-> KeyType(parts[i])]

\* What the target type asks of the decoder.  A record with named fields
\* (tuple FALSE) takes the id and the payload fields it declares and skips
\* the others; a tuple record takes n values in order.  The rows of an hdata
\* go to a record declaring the columns cols, all of them required, or to a
\* map that takes every key (all).
Shape(tuple, n, fields, cols, all) ==
    [tuple |-> tuple, n |-> n, fields |-> fields, cols |-> cols, all |-> all]

Declared(shape, key) == shape.all \/ key \in shape.cols

Keys(acc) == {acc[i][1] : i \in DOMAIN acc}

RECURSIVE deserialize_any(_, _, _, _)
RECURSIVE WeeSeq(_, _, _, _, _, _)
RECURSIVE WeeMap(_, _, _, _, _, _, _)
RECURSIVE WeeHdaRow(_, _, _, _, _, _, _)
RECURSIVE WeeHda(_, _, _, _, _, _, _)

\* deserialize_any with part Data(typ).  A value in a position the target
\* skips (ign) is decoded all the same, by the IgnoredAny visitor.
deserialize_any(typ, in, ign, shape) ==
    CASE typ = T.str -> read_str(in)
      [] typ = T.buf -> read_buf(in)
      [] typ = T.inf -> WeeSeq(T.str, 2, in, ign, shape, <<>>)
      [] typ = T.chr ->
            IF Len(in) < 1 THEN Fail("panic") ELSE Ok(as_i8(in[1]), Drop(in, 1))
      [] typ = T.int ->
            IF Len(in) < 4 THEN Fail("panic") ELSE Ok(be_i32(Take(in, 4)), Drop(in, 4))
      [] typ \in {T.lon, T.ptr, T.tim} -> read_ptr(in)
      [] typ = T.arr ->
            LET t == read_typ(in)
                c == read_count(t.rest)
            IN IF t.st # "ok" THEN t
               ELSE IF c.st # "ok" THEN c
               ELSE WeeSeq(t.val, c.val, c.rest, ign, shape, <<>>)
      [] typ = T.htb ->
            LET k == read_typ(in)
                v == read_typ(k.rest)
                c == read_count(v.rest)
            IN IF k.st # "ok" THEN k
               ELSE IF v.st # "ok" THEN v
               ELSE IF c.st # "ok" THEN c
               ELSE WeeMap(k.val, v.val, c.val, c.rest, ign, shape, <<>>)
      [] typ = T.hda ->
            LET h == read_str(in)
                header == read_str(h.rest)
                c == read_count(header.rest)
            IN IF h.st # "ok" THEN h
               ELSE IF header.st # "ok" THEN header
               ELSE IF KeyTypesPanic(header.val) THEN Fail("panic")
               ELSE IF c.st # "ok" THEN c
               ELSE WeeHda(HPath(h.val), KeyTypes(header.val), c.val, c.rest,
                           ign, shape, <<>>)
      [] OTHER -> Fail("panic")

\* WeeSeq::next_element_seed, count times.
WeeSeq(typ, count, in, ign, shape, acc) ==
    IF count = 0 THEN Ok(acc, in)
    ELSE LET r == deserialize_any(typ, in, ign, shape)
         IN IF r.st # "ok" THEN r
            ELSE WeeSeq(typ, count - 1, r.rest, ign, shape, Append(acc, r.val))

\* WeeMap::next_key_seed and next_value_seed, count times.
WeeMap(ktyp, vtyp, count, in, ign, shape, acc) ==
    IF count = 0 THEN Ok(acc, in)
    ELSE LET k == deserialize_any(ktyp, in, ign, shape)
             v == deserialize_any(vtyp, k.rest, ign, shape)
         IN IF k.st # "ok" THEN k
            ELSE IF v.st # "ok" THEN v
            ELSE WeeMap(ktyp, vtyp, count - 1, v.rest, ign, shape,
                        Append(acc, <<k.val, v.val>>))

\* One row: WeeHda::next_key_seed and next_value_seed until the key is None.
\* The end of the columns is tested before the pointers.  The visitor of a
\* record refuses a key it has already taken and, at the end, a row without
\* one of its fields.
WeeHdaRow(hpath, key_types, ptr_idx, kv_idx, in, shape, acc) ==
    IF kv_idx = Len(key_types)
    THEN IF ~shape.all /\ shape.cols \ Keys(acc) # {} THEN Fail("Message") ELSE Ok(acc, in)
    ELSE LET pointer == ptr_idx < Len(hpath)
             key == IF pointer THEN hpath[ptr_idx + 1] ELSE key_types[kv_idx + 1].name
             typ == IF pointer THEN T.ptr ELSE key_types[kv_idx + 1].typ
             taken == Declared(shape, key)
             v == deserialize_any(typ, in, ~taken, shape)
         IN IF taken /\ ~shape.all /\ key \in Keys(acc) THEN Fail("Message")
            ELSE IF v.st # "ok" THEN v
            ELSE WeeHdaRow(hpath, key_types,
                           IF pointer THEN ptr_idx + 1 ELSE ptr_idx,
                           IF pointer THEN kv_idx ELSE kv_idx + 1,
                           v.rest, shape,
                           IF taken THEN Append(acc, <<key, v.val>>) ELSE acc)

\* The rows: WeeHda::next_element_seed, count times.  In a skipped position
\* the row goes to WeeHda's deserialize_any, which is unimplemented!().
WeeHda(hpath, key_types, count, in, ign, shape, acc) ==
    IF count = 0 THEN Ok(acc, in)
    ELSE IF ign THEN Fail("panic")
    ELSE LET r == WeeHdaRow(hpath, key_types, 0, 0, in, shape, <<>>)
         IN IF r.st # "ok" THEN r
            ELSE WeeHda(hpath, key_types, count - 1, r.rest, ign, shape,
                        Append(acc, r.val))

\* The message as a map (MapAccess for DeMessage): the key "id" with a
\* string, then for as long as input is left a type marker as the key and
\* the value of that type.  The visitor of the record refuses a second value
\* for a field and a null id, and at the end a missing field.
RECURSIVE DeMessageMap(_, _, _, _)
DeMessageMap(in, first, shape, acc) ==
    IF Len(in) = 0
    THEN IF ({T.id} \cup shape.fields) \ Keys(acc) # {} THEN Fail("Message")
         ELSE Ok(acc, in)
    ELSE LET k == IF first THEN Ok(T.id, in) ELSE read_typ(in)
             typ == IF first THEN T.str ELSE k.val
             taken == first \/ k.val \in shape.fields
             v == deserialize_any(typ, k.rest, ~taken, shape)
         IN IF k.st # "ok" THEN k
            ELSE IF taken /\ k.val \in Keys(acc) THEN Fail("Message")
            ELSE IF v.st # "ok" THEN v
            ELSE IF first /\ v.val = None THEN Fail("Message")
            ELSE DeMessageMap(v.rest, FALSE, shape,
                              IF taken THEN Append(acc, <<k.val, v.val>>) ELSE acc)

\* The message as a sequence (deserialize_tuple_struct, SeqAccess for
\* DeMessage): the id, then n - 1 values whose type markers are skipped.
\* The visitor stops after n values and refuses an input that ends before.
RECURSIVE DeMessageSeq(_, _, _, _)
DeMessageSeq(in, first, shape, acc) ==
    IF Len(acc) = shape.n THEN Ok(acc, in)
    ELSE IF Len(in) = 0 THEN Fail("Message")
    ELSE LET k == IF first THEN Ok(T.str, in) ELSE read_typ(in)
             v == deserialize_any(k.val, k.rest, FALSE, shape)
         IN IF k.st # "ok" THEN k
            ELSE IF v.st # "ok" THEN v
            ELSE IF first /\ v.val = None THEN Fail("Message")
            ELSE DeMessageSeq(v.rest, FALSE, shape, Append(acc, v.val))

\* de::from_bytes
from_bytes(shape, in) ==
    LET t == IF shape.tuple THEN DeMessageSeq(in, TRUE, shape, <<>>)
             ELSE DeMessageMap(in, TRUE, shape, <<>>)
    IN IF t.st # "ok" THEN t
       ELSE IF Len(t.rest) = 0 THEN t
       ELSE Fail("TrailingCharacters")

(* ----------------------------------------------- the relay's encoding *)
\* What the relay writes for a length or count, a string, a pointer and an
\* integer (small and non-negative here).
U32(n) == <<0, 0, n \div 256, n % 256>>
EncStr(text) == U32(Len(text)) \o as_bytes(text)
EncPtr(text) == <<Len(text)>> \o as_bytes(text)

RECURSIVE Join(_, _)
Join(texts, sep) ==
    IF Len(texts) = 0 THEN <<>>
    ELSE IF Len(texts) = 1 THEN texts[1]
    ELSE texts[1] \o <<sep>> \o Join(Tail(texts), sep)

RECURSIVE Flatten(_)
Flatten(seqs) == IF Len(seqs) = 0 THEN <<>> ELSE seqs[1] \o Flatten(Tail(seqs))

\* The components of an h-path and the columns of a schema, of which an
\* hdata uses the first m and the first n.
PathComps == <<<<"b", "u", "f", "f", "e", "r">>, <<"l", "i", "n", "e", "s">>>>
ColNames == <<<<"n", "u", "m", "b", "e", "r">>, <<"f", "u", "l", "l", "_", "n", "a", "m", "e">>, <<"t", "i", "t", "l", "e">>>>
ColTypes == <<<<"i", "n", "t">>, <<"s", "t", "r">>, <<"s", "t", "r">>>>
FullNames == <<<<"c", "o", "r", "e", ".", "w", "e", "e", "c", "h", "a", "t">>, <<"i", "r", "c", ".", "c", "h", "a", "n">>, <<"x">>, <<"y", ".", "z">>>>

\* Row i of an hdata: its pointers and the values of its columns.
PointerOf(i, j) == <<HexDigits[i + 1], HexDigits[10 + j]>>
ValueOf(i, c) ==
    CASE c = 1 -> i + 6
      [] c = 2 -> Some(FullNames[i])
      [] OTHER -> IF i % 2 = 1 THEN None ELSE Some(<<"t">>)

EncValue(i, c) ==
    IF c = 1 THEN U32(ValueOf(i, c))
    ELSE IF ValueOf(i, c) = None THEN NullLen
    ELSE EncStr(ValueOf(i, c)[1])

EncRow(i, m, n) ==
    Flatten([j \in 1..m |-> EncPtr(PointerOf(i, j))])
    \o Flatten([c \in 1..n |-> EncValue(i, c)])

MsgId == <<"b", "u", "f", "f", "e", "r", "s">>

\* An hdata message with m path components, n columns and k rows; without
\* path and schema (m = 0, n = 0) both are null strings.
EncHdata(m, n, k) ==
    EncStr(MsgId) \o T.hda
    \o (IF m = 0 THEN NullLen ELSE EncStr(Join(SubSeq(PathComps, 1, m), "/")))
    \o (IF n = 0 THEN NullLen
        ELSE EncStr(Join([c \in 1..n |-> ColNames[c] \o <<":">> \o ColTypes[c]], ",")))
    \o U32(k)
    \o Flatten([i \in 1..k |-> EncRow(i, m, n)])

PtrKey(j) == T.prefix \o as_bytes(PathComps[j])
ColKey(c) == as_bytes(ColNames[c])

\* The records and the map the rows are decoded into.
RowTargets ==
    {Shape(FALSE, 0, {T.hda}, cols, FALSE) :
        cols \in {{PtrKey(1), ColKey(1), ColKey(2)}, {ColKey(2)}, {ColKey(1), ColKey(3)},
                  {PtrKey(1), PtrKey(2), ColKey(1)}}}
    \cup {Shape(FALSE, 0, {T.hda}, {}, TRUE)}

\* A record with an id and an hda field, and a tuple record of an id and
\* one value.
RecordShape == Shape(FALSE, 0, {T.hda}, {PtrKey(1), ColKey(1), ColKey(2)}, FALSE)
TupleShape == Shape(TRUE, 2, {}, {PtrKey(1), ColKey(1), ColKey(2)}, FALSE)

\* A message of one row, and what may be wrong with what arrives: it stops
\* early, bytes follow it, or its payload has another type marker.
BaseMsg == EncHdata(1, 2, 1)
Tails ==
    {[i \in 1..l |-> 0] : l \in 1..MaxTail}
    \cup {T.str \o NullLen, T.int \o U32(7), T.hda \o NullLen \o NullLen \o U32(0),
          as_bytes(<<"x", "y", "z">>) \o U32(0)}

RawInputs ==
    {[kind |-> "truncated", input |-> Take(BaseMsg, l)] : l \in 0..(Len(BaseMsg) - 1)}
    \cup {[kind |-> "trailing", input |-> BaseMsg \o t] : t \in Tails}
    \cup {[kind |-> "tag",
            input |-> EncStr(MsgId) \o tag \o Drop(BaseMsg, Len(EncStr(MsgId)) + 3)] :
            tag \in {T.inl, as_bytes(<<"x", "y", "z">>)}}

\* from_bytes on an hdata message as the relay encodes it, the first message
\* of a session.
from_bytes_hdata(m, n, k, shape) ==
    /\ pc = "idle"
    /\ ev.op = "connect"
    /\ (m = 0) = (n = 0)
    /\ n = 0 => k = 0
    /\ ev' = [op |-> "from_bytes", kind |-> "hdata", m |-> m, n |-> n, k |-> k,
              shape |-> shape, input |-> EncHdata(m, n, k),
              res |-> from_bytes(shape, EncHdata(m, n, k))]
    /\ UNCHANGED <<session, transport, enq, lost, frames_left, ops_left>>
    /\ UNCHANGED <<ui_input, asked>>

\* from_bytes on the bytes of a message that is not well formed.
from_bytes_raw(raw, shape) ==
    /\ pc = "idle"
    /\ ev.op = "connect"
    /\ ev' = [op |-> "from_bytes", kind |-> raw.kind, m |-> 0, n |-> 0, k |-> 0,
              shape |-> shape, input |-> raw.input,
              res |-> from_bytes(shape, raw.input)]
    /\ UNCHANGED <<session, transport, enq, lost, frames_left, ops_left>>
    /\ UNCHANGED <<ui_input, asked>>

InitDe == Start(0, 0)

NextDe ==
    \/ \E m \in 0..Len(PathComps), n \in 0..Len(ColNames), k \in 0..MaxRows, shape \in RowTargets :
          from_bytes_hdata(m, n, k, shape)
    \/ \E raw \in RawInputs, shape \in {RecordShape, TupleShape} : from_bytes_raw(raw, shape)

SpecDe == InitDe /\ [][NextDe]_vars

(* ------------------------------------------- replies in the order of requests *)
\* A line of irc.chan that can be scrolled back from.
RowB2 == Line(Some("b2"), "2b", None, Plain, 1)

\* The requests for lines among what has been queued, in order.
LineRequests ==
    LET IsLineRequest(x) ==
            \/ x \in {BacklogMsg(r.ptr_buffer) : r \in {RowCore, RowChan}}
            \/ x \in {ScrollbackMsg(p) : p \in {"a1", "a2", "b2"}}
    IN SelectSeq(enq, IsLineRequest)

\* What the relay answers: to a backlog request the last lines of that
\* buffer, newest first; to a scrollback request the line asked for and the
\* lines before it.
ReplyTo(request) ==
    CASE request = BacklogMsg("1a") -> Frame(Some("backlog_lines"), <<RowA2, RowA1>>)
      [] request = BacklogMsg("2b") -> Frame(Some("backlog_lines"), <<RowB2>>)
      [] request = ScrollbackMsg("a2") -> Frame(Some("scrollback_lines"), <<RowA2, RowA1>>)
      [] request = ScrollbackMsg("a1") -> Frame(Some("scrollback_lines"), <<RowA1>>)
      [] OTHER -> Frame(Some("scrollback_lines"), <<RowB2>>)

\* main.rs has connected, asked for the buffers and run two turns: the
\* request is written and the buffer list is in.
InitOrd ==
    /\ current_buffer = ""
    /\ bufs = BuffersFromRows(<<RowCore, RowChan>>)
    /\ buf_lines = <<>>
    /\ send_queue = <<>>
    /\ completion = None
    /\ is_scrolling = FALSE
    /\ stream_in = <<>>
    /\ in_flight = <<>>
    /\ stream_out = <<BuffersMsg>>
    /\ pc = "idle"
    /\ hdr = <<>>
    /\ ev = [op |-> "handle_one", comp |-> 0,
             frame |-> Frame(Some("gui_buffers"), <<RowCore, RowChan>>)]
    /\ enq = <<BuffersMsg>>
    /\ lost = 0
    /\ frames_left = MaxFramesOrd
    /\ ops_left = MaxOpsOrd
    /\ ui_input = LineEditNew
    /\ asked = {}

\* The replies handled so far: every frame of this run is a reply.
Replied == MaxFramesOrd - frames_left

\* The next frame is the reply to the oldest request not yet answered.
InboundReply ==
    /\ Replied < Len(LineRequests)
    /\ InboundTurn(0, ReplyTo(LineRequests[Replied + 1]))

NextOrd ==
    \/ \E name \in BufferNames : switch_current_buffer(name)
    \/ \E k \in Scrolls : scroll_back(k)
    \/ InboundReply

SpecOrd == InitOrd /\ [][NextOrd]_vars

(* ------------------------------------------------- strip_colors on any text *)
\* The texts a relay may put in a prefix or a message: the two formatting
\* bytes, each kind of character the scan looks for, a digit and a letter.
StripInputs ==
    UNION {[1..n -> {X19, X1C, "F", "*", "@", ",", "0", "a"}] : n \in 0..MaxStripLen}

\* strip_colors(input) is called on a text of a line.
StripCall(s) ==
    /\ pc = "idle"
    /\ ev.op = "connect"
    /\ ev' = [op |-> "strip_colors", text |-> s, res |-> strip_colors(s)]
    /\ pc' = IF strip_colors(s).ok THEN "idle" ELSE "panic"
    /\ UNCHANGED <<session, stream_in, in_flight, stream_out, hdr, enq, lost,
                   frames_left, ops_left, ui_input, asked>>

NextStrip == \E s \in StripInputs : StripCall(s)

SpecStrip == Init /\ [][NextStrip]_vars

(* ------------------------------------------------------------- LineEdit *)
\* The composer is a record of LineEdit.data (a sequence of characters) and
\* LineEdit.cursor.  A key event is what termion's parse_event returns:
\* its kind and, for Char, Alt and Ctrl, its character.
Key(kind, c) == [key |-> kind, c |-> c]

SHORTCUT_CHARS ==
    <<"0", "1", "2", "3", "4", "5", "6", "7", "8", "9",
      "q", "w", "e", "r", "t", "y", "u", "i", "o", "p">>

\* LineEdit::get_string: the characters collected into one String.
RECURSIVE get_string(_)
get_string(data) ==
    IF data = <<>> THEN "" ELSE Head(data) \o get_string(Tail(data))

\* LineEdit::clear
clear(le) == [data |-> <<>>, cursor |-> 0]

\* data.insert(cursor, c); cursor += 1
InsertChar(le, c) ==
    [data |-> SubSeq(le.data, 1, le.cursor) \o <<c>>
                  \o SubSeq(le.data, le.cursor + 1, Len(le.data)),
     cursor |-> le.cursor + 1]

\* A variant of Key::Right without the bound of the text.
MoveRightUnbounded(le) == [le EXCEPT !.cursor = le.cursor + 1]

\* Key::Right: usize::min(data.len(), cursor + 1)
MoveRight(le) == [le EXCEPT !.cursor = Min(Len(le.data), le.cursor + 1)]

\* LineEdit::handle_input over the key events of the bytes read: the
\* composer after it and the Action it returns (the String of a Completion
\* as its characters).  An arm that returns leaves the events after it
\* unread.
RECURSIVE handle_input(_, _)
handle_input(le, keys) ==
    IF keys = <<>> THEN [le |-> le, action |-> [t |-> "Noop"]]
    ELSE LET k == Head(keys)
             rest == Tail(keys)
             \* Key::Left: cursor.saturating_sub(1)
             MoveLeft == [le EXCEPT !.cursor = IF le.cursor = 0 THEN 0 ELSE le.cursor - 1]
             \* Key::Backspace
             Backspace ==
                 IF le.cursor = 0 THEN le
                 ELSE [data |-> SubSeq(le.data, 1, le.cursor - 1)
                                    \o SubSeq(le.data, le.cursor + 1, Len(le.data)),
                       cursor |-> le.cursor - 1]
         IN
         IF k.key = "Char" /\ k.c = "\n" THEN [le |-> le, action |-> [t |-> "Input"]]
         ELSE IF k.key = "Alt" /\ k.c = "\r" THEN handle_input(InsertChar(le, "\n"), rest)
         ELSE IF k.key = "Char" /\ k.c = "\t"
              THEN [le |-> le,
                    action |-> [t |-> "Completion", pos |-> le.cursor,
                                data |-> [i \in DOMAIN le.data |->
                                            IF le.data[i] = "\n" THEN "." ELSE le.data[i]]]]
         ELSE IF k.key = "Char" THEN handle_input(InsertChar(le, k.c), rest)
         ELSE IF k.key = "Ctrl" /\ k.c = "c" THEN [le |-> le, action |-> [t |-> "Quit"]]
         ELSE IF k.key = "Ctrl" /\ k.c = "u" THEN handle_input(clear(le), rest)
         ELSE IF k.key = "Up" THEN [le |-> le, action |-> [t |-> "ScrollBack"]]
         ELSE IF k.key = "Left" THEN handle_input(MoveLeft, rest)
         ELSE IF k.key = "Right" THEN handle_input(MoveRight(le), rest)
         ELSE IF k.key = "Ctrl" /\ k.c = "p"
              THEN [le |-> le, action |-> [t |-> "BufChange", i |-> -1]]
         ELSE IF k.key = "Ctrl" /\ k.c = "n"
              THEN [le |-> le, action |-> [t |-> "BufChange", i |-> 1]]
         ELSE IF k.key = "Backspace" THEN handle_input(Backspace, rest)
         ELSE IF k.key = "Alt" /\ k.c \in Range(SHORTCUT_CHARS)
              THEN [le |-> le,
                    action |-> [t |-> "BufChangeAbs",
                                i |-> (CHOOSE i \in DOMAIN SHORTCUT_CHARS :
                                           SHORTCUT_CHARS[i] = k.c) - 1]]
         ELSE handle_input(le, rest)

\* messages.rs CompletionData, with list[0].chars() as a sequence.
CompletionData(pos_start, pos_end, add_space, list) ==
    [context |-> "auto", base_word |-> "", pos_start |-> pos_start, pos_end |-> pos_end,
     add_space |-> add_space, list |-> list]

\* LineEdit::complete: whether it returns, and the composer after it.
\* Vec::splice panics on a range that starts after its end; a negative
\* position becomes, as usize, a number beyond any text.
complete(le, c) ==
    IF c.list = <<>> THEN [ok |-> TRUE, le |-> le]
    ELSE LET start_pos == Min(c.pos_start, c.pos_end)
             end_pos == Min(Len(le.data), c.pos_end + 1)
         IN IF start_pos < 0 \/ start_pos > end_pos THEN [ok |-> FALSE, le |-> le]
            ELSE LET spliced == [data |-> SubSeq(le.data, 1, start_pos) \o c.list[1]
                                              \o SubSeq(le.data, end_pos + 1, Len(le.data)),
                                 cursor |-> start_pos + Len(c.list[1])]
                 IN [ok |-> TRUE,
                     le |-> IF c.add_space = 1 THEN InsertChar(spliced, " ") ELSE spliced]

\* The calls on a LineEdit: handle_input with the key events of one read of
\* the keyboard, clear, and complete with a completion.
EditKeys ==
    {Key("Char", "a"), Key("Alt", "\r"), Key("Backspace", ""), Key("Left", ""),
     Key("Right", ""), Key("Ctrl", "u"), Key("Char", "\n"), Key("Char", "\t"),
     Key("Alt", "1"), Key("Delete", "")}

EditReads ==
    {<<k>> : k \in EditKeys}
    \cup {<<Key("Left", ""), Key("Left", "")>>, <<Key("Char", "\n"), Key("Char", "a")>>,
          <<Key("Char", "a"), Key("Right", "")>>}

EditCompletions ==
    {CompletionData(s, e, l[1], l[2]) :
        s \in 0..MaxPos, e \in 0..MaxPos,
        l \in {<<0, <<>>>>, <<1, <<<<"b">>>>>>, <<0, <<<<"b", "c">>, <<"d">>>>>>}}

EditStep(op, arg, le) ==
    /\ pc = "idle"
    /\ Len(le.data) <= MaxText
    /\ ui_input' = le
    /\ ev' = [op |-> op, arg |-> arg]
    /\ UNCHANGED <<session, stream_in, in_flight, stream_out, pc, hdr, enq, lost,
                   frames_left, ops_left, asked>>

EditHandleInput(keys) ==
    EditStep("handle_input", keys, handle_input(ui_input, keys).le)

EditClear == EditStep("clear", <<>>, clear(ui_input))

EditComplete(c) ==
    IF ~complete(ui_input, c).ok
    THEN /\ pc = "idle"
         /\ pc' = "panic"
         /\ ev' = [op |-> "complete", arg |-> c]
         /\ UNCHANGED <<session, stream_in, in_flight, stream_out, hdr, enq, lost,
                        frames_left, ops_left, ui_input, asked>>
    ELSE EditStep("complete", c, complete(ui_input, c).le)

NextEdit ==
    \/ \E keys \in EditReads : EditHandleInput(keys)
    \/ EditClear
    \/ \E c \in EditCompletions : EditComplete(c)

SpecEdit == Init /\ [][NextEdit]_vars

(* --------------------------------------------------------- the main loop *)
\* str::lines: the pieces between the newlines, without a last empty piece.
linesWhole(data) == IF data = <<>> THEN <<>> ELSE <<data>>

lines(data) ==
    LET parts == Split(data, "\n")
    IN IF parts[Len(parts)] = <<>> THEN SubSeq(parts, 1, Len(parts) - 1) ELSE parts

\* What the Input arm queues for the composer's text: one command a line.
InputCommands(buf, data) ==
    [i \in DOMAIN lines(data) |->
        SendMsg("", "input " \o buf.full_name \o " " \o get_string(lines(data)[i]))]

\* What the Completion arm queues.
CompletionMsg(buf, pos, data) ==
    SendMsg("completion",
            "completion 0x" \o buf.ptr_buffer \o " " \o ToString(pos) \o " "
                \o get_string(data))

\* Ui::draw: a pending completion is taken and given to the composer.
draw(le, pending) ==
    IF pending = None THEN [ok |-> TRUE, le |-> le] ELSE complete(le, pending[1])

\* A variant of the main loop that keeps a current buffer it cannot find.
NeedsFallbackNever(bs, name) == FALSE

\* main.rs: `if wee.get_current_buffer().is_none()` after a turn.
NeedsFallback(bs, name) == GetCurrentBuffer(bs, name) = None

\* What a relay answers to `completion <buffer> <pos> <data>`: the word that
\* ends at pos is the base word, the positions are those of its first and
\* last character (both pos for an empty word) and the first entry of the
\* list is the word completed.
CompletionFor(pos, data) ==
    LET spaces == {i \in 1..pos : data[i] = " "}
        start == IF spaces = {} THEN 0 ELSE CHOOSE i \in spaces : \A j \in spaces : j <= i
    IN IF start = pos THEN CompletionData(pos, pos, 1, <<<<"b">>>>)
       ELSE CompletionData(start, pos - 1, 1, <<SubSeq(data, start + 1, pos) \o <<"b">>>>)

\* main.rs has connected, received the buffer list, switched to core.weechat,
\* queued sync and drawn: the loop starts.
InitUi ==
    /\ current_buffer = "core.weechat"
    /\ bufs = BuffersFromRows(<<RowCore, RowChan>>)
    /\ buf_lines = <<>>
    /\ send_queue = <<BacklogMsg("1a"), SendMsg("sync", "sync")>>
    /\ completion = None
    /\ is_scrolling = FALSE
    /\ stream_in = <<>>
    /\ in_flight = <<>>
    /\ stream_out = <<BuffersMsg>>
    /\ pc = "idle"
    /\ hdr = <<>>
    /\ ev = [op |-> "draw"]
    /\ enq = <<BuffersMsg, BacklogMsg("1a"), SendMsg("sync", "sync")>>
    /\ lost = 0
    /\ frames_left = MaxFramesUi
    /\ ops_left = MaxOpsUi
    /\ ui_input = LineEditNew
    /\ asked = {}

\* The loop is at its select!: the arm of the last turn has run to its end.
InLoop == pc = "idle" /\ ev.op \notin {"handle_one", "run_outbound"}

\* wee.run() takes its outbound branch: the queued commands are written.
OutboundTurn ==
    /\ InLoop
    /\ send_queue # <<>>
    /\ stream_out' = stream_out \o <<FirstWrite(Head(send_queue))>>
                         \o DrainWrites(Tail(send_queue))
    /\ send_queue' = <<>>
    /\ ev' = [op |-> "run_outbound"]
    /\ UNCHANGED <<current_buffer, bufs, buf_lines, completion, is_scrolling, stream_in,
                   in_flight, pc, hdr, enq, lost, frames_left, ops_left, ui_input, asked>>

\* The rest of the arm of wee.run(): the switch to core.weechat when the
\* current buffer is not in the list, and the draw.
AfterTurn ==
    /\ pc = "idle"
    /\ ev.op \in {"handle_one", "run_outbound"}
    /\ LET fallback == NeedsFallback(bufs, current_buffer)
           drawn == draw(ui_input, completion)
       IN /\ current_buffer' = IF fallback THEN "core.weechat" ELSE current_buffer
          /\ Enqueue(IF fallback THEN SwitchEnqueue(bufs, "core.weechat") ELSE <<>>)
          /\ completion' = None
          /\ ui_input' = drawn.le
          /\ pc' = IF drawn.ok THEN "idle" ELSE "panic"
          /\ ev' = [op |-> "after_turn", turn |-> ev, switched |-> fallback,
                    pending |-> completion]
    /\ UNCHANGED <<bufs, buf_lines, is_scrolling, stream_in, in_flight, stream_out, hdr,
                   lost, frames_left, ops_left, asked>>

\* The arm of the SIGWINCH pipe: a draw.
LoopSignal ==
    /\ InLoop
    /\ ev.op # "signal"
    /\ completion' = None
    /\ ui_input' = draw(ui_input, completion).le
    /\ pc' = IF draw(ui_input, completion).ok THEN "idle" ELSE "panic"
    /\ ev' = [op |-> "signal"]
    /\ UNCHANGED <<current_buffer, bufs, buf_lines, send_queue, is_scrolling, stream_in,
                   in_flight, stream_out, hdr, enq, lost, frames_left, ops_left, asked>>

\* The loop is left (Action::Quit, or get_input failed): wee.close() queues
\* the sentinel and run(conf) returns Ok.
Leave(le, why) ==
    /\ Enqueue(<<CloseSentinel>>)
    /\ pc' = "returned"
    /\ ui_input' = le
    /\ ev' = why
    /\ UNCHANGED <<current_buffer, bufs, buf_lines, completion, is_scrolling, asked>>

LoopInputError ==
    /\ InLoop
    /\ Leave(ui_input, [op |-> "input_error"])
    /\ UNCHANGED <<stream_in, in_flight, stream_out, hdr, lost, frames_left, ops_left>>

\* The buffer BufChange(i) switches to: the one after (i > 0) or before the
\* current buffer in the list, None where there is none.
BufChangeTarget(i) ==
    LET k == FirstIdx({j \in DOMAIN bufs : bufs[j].full_name = current_buffer})
        n == IF i > 0 THEN k + 1 ELSE k - 1
    IN IF k = 0 \/ n \notin DOMAIN bufs THEN None ELSE Some(bufs[n].full_name)

\* The arm of the keyboard: handle_input on the keys read, then the match on
\* the Action it returned.
LoopInput(keys) ==
    /\ InLoop
    /\ ops_left > 0
    /\ ops_left' = ops_left - 1
    /\ LET r == handle_input(ui_input, keys)
           a == r.action
           cur == get_current_buffer
           drawn == draw(IF a.t = "Input" THEN clear(r.le) ELSE r.le, completion)
           line == ScrollLine(buf_lines, 10)
           target == CASE a.t = "BufChange" -> BufChangeTarget(a.i)
                       [] a.t = "BufChangeAbs" ->
                            IF a.i + 1 \in DOMAIN bufs THEN Some(bufs[a.i + 1].full_name)
                            ELSE None
                       [] OTHER -> None
       IN IF a.t = "Quit"
          THEN Leave(r.le, [op |-> "input", keys |-> keys, action |-> a.t])
          ELSE
          /\ ev' = [op |-> "input", keys |-> keys, action |-> a.t]
          /\ current_buffer' = IF target # None THEN target[1] ELSE current_buffer
          /\ Enqueue(CASE a.t = "Input" /\ cur # None -> InputCommands(cur[1], r.le.data)
                       [] a.t = "Completion" /\ cur # None ->
                            <<CompletionMsg(cur[1], a.pos, a.data)>>
                       [] target # None -> SwitchEnqueue(bufs, target[1])
                       [] a.t = "ScrollBack" /\ line # 0 /\ buf_lines[line].ptr_line # None ->
                            ScrollEnqueue(buf_lines[line])
                       [] OTHER -> <<>>)
          /\ asked' = IF a.t = "Completion" /\ cur # None
                      THEN asked \cup {[pos |-> a.pos, data |-> a.data,
                                        msg |-> CompletionMsg(cur[1], a.pos, a.data)]}
                      ELSE asked
          /\ IF \/ a.t = "Input" /\ cur # None
                \/ a.t = "BufChange" /\ target # None
                \/ a.t = "Noop"
             THEN /\ ui_input' = drawn.le
                  /\ completion' = None
                  /\ pc' = IF drawn.ok THEN "idle" ELSE "panic"
             ELSE /\ ui_input' = r.le
                  /\ UNCHANGED completion
                  /\ pc' = IF a.t = "ScrollBack" /\ line # 0 /\ buf_lines[line].ptr_line = None
                           THEN "panic" ELSE "idle"
          /\ UNCHANGED <<bufs, buf_lines, is_scrolling>>
    /\ UNCHANGED <<stream_in, in_flight, stream_out, hdr, lost, frames_left>>

\* The keys of one read of the keyboard, and the frames of the relay: buffer
\* lists, and the answer to a completion request that has been written.
UiReads ==
    {<<k>> : k \in {Key("Char", "a"), Key("Char", " "), Key("Alt", "\r"),
                    Key("Backspace", ""), Key("Ctrl", "u"), Key("Char", "\n"),
                    Key("Char", "\t"), Key("Ctrl", "c"), Key("Alt", "1"),
                    Key("Ctrl", "n"), Key("Up", "")}}
        \cup {<<Key("Char", "a"), Key("Alt", "\r"), Key("Char", "a")>>}

UiBufferLists == {<<RowCore, RowChan>>, <<RowCore>>, <<RowChan>>}

NextUi ==
    \/ \E keys \in UiReads : LoopInput(keys)
    \/ LoopInputError
    \/ LoopSignal
    \/ OutboundTurn
    \/ \E rows \in UiBufferLists : InLoop /\ InboundTurn(0, Frame(Some("gui_buffers"), rows))
    \/ \E a \in asked :
          /\ InLoop
          /\ a.msg \in Range(stream_out)
          /\ InboundTurn(0, Frame(Some("completion"), <<CompletionFor(a.pos, a.data)>>))
    \/ AfterTurn

SpecUi == InitUi /\ [][NextUi]_vars

(* ------------------------------------------------------------------ claims *)
\* The entries of a sequence of queue items or writes that are commands:
\* neither the close sentinel (written as nothing by the drain loop) nor the
\* quit message written for it.
IsCommand(x) == x \notin {CloseSentinel, QuitMsg}
Commands(s) == SelectSeq(s, IsCommand)

\* What the step writes to the transport.
NewWrites == SubSeq(stream_out', Len(stream_out) + 1, Len(stream_out'))

\* C1: the commands written to the transport, followed by the commands still
\* queued, are the commands queued so far (by operations and by frame
\* handlers) in the order they were queued: each is written once, unmodified,
\* in enqueue order.
C1_WritesInEnqueueOrder ==
    Commands(enq) = Commands(stream_out) \o Commands(send_queue)

\* Commands of a caller and of a frame handler have been written, three or more.
C1_Witness ==
    /\ Len(Commands(stream_out)) >= 3
    /\ SendMsg("sync", "sync") \in Range(stream_out)
    /\ HotlistMsg \in Range(stream_out)
    /\ Commands(send_queue) # <<>>

\* C2: a turn that takes the outbound branch while the close sentinel is
\* queued, and returns, has written the quit message.
C2_CloseWritesQuit ==
    [][(/\ pc \in {"select", "quit"}
        /\ pc' = "idle"
        /\ stream_out' # stream_out
        /\ (pc = "quit" \/ CloseSentinel \in Range(send_queue)))
       => QuitMsg \in Range(NewWrites)]_vars

\* C3: no byte the server sent is read and then dropped, and the stream is
\* never read out of step with the frames.
C3_NoInboundByteLost == lost = 0 /\ pc # "desync"

\* C4: when a turn ends, by returning or by being cancelled, every item it
\* took from the send queue has been written.
C4_DequeuedIsWritten ==
    [][(pc \in {"select", "quit"} /\ pc' = "idle")
       => Len(NewWrites) = (IF pc = "quit" THEN 1 ELSE 0)
                             + (Len(send_queue) - Len(send_queue'))]_vars

\* The step is an inbound turn that handled a frame with this id.
Handled(id) ==
    /\ ev'.op = "handle_one"
    /\ pc' # "panic"
    /\ ev'.frame.id = Some(id)

\* The state follows the handling of a frame with this id.
HasHandled(id) ==
    /\ ev.op = "handle_one"
    /\ pc # "panic"
    /\ ev.frame.id = Some(id)

Known(ptr) == \E i \in DOMAIN bufs : bufs[i].ptr_buffer = ptr

IsCurrent(ptr) ==
    \E i \in DOMAIN bufs :
        bufs[i].ptr_buffer = ptr /\ bufs[i].full_name = current_buffer

Hotlists(bs) == [i \in DOMAIN bs |-> bs[i].hotlist]

NoColorCodes(str) == \A i \in DOMAIN str : str[i] \notin {X19, X1C}

\* C5: a _buffer_line_added event for a known buffer appends the line, colors
\* stripped, at the end of the cache if and only if that buffer is the current
\* buffer and is_scrolling is false (otherwise the cache is unchanged); when
\* the line is appended no hotlist counter changes.
C5_LineCachedIffCurrent ==
    [][(Handled("_buffer_line_added") /\ Known(ev'.frame.hda[1].buffer))
       => LET l == ev'.frame.hda[1]
              appended == buf_lines' = Append(buf_lines, StripLine(l))
          IN /\ appended <=> (IsCurrent(l.buffer) /\ ~is_scrolling)
             /\ ~appended => buf_lines' = buf_lines
             /\ appended => /\ Hotlists(bufs') = Hotlists(bufs)
                            /\ NoColorCodes(buf_lines'[Len(buf_lines')].message)]_vars

\* A colored line of the current buffer has been appended behind cached lines.
C5_Witness ==
    /\ HasHandled("_buffer_line_added")
    /\ IsCurrent(ev.frame.hda[1].buffer)
    /\ ev.frame.hda[1].message = Colored
    /\ Len(buf_lines) >= 2
    /\ buf_lines[Len(buf_lines)].message = Plain
    /\ buf_lines[Len(buf_lines)].ptr_line = None

\* The line event is for a buffer of the list that is not the current buffer.
LineForOtherBuffer ==
    /\ Handled("_buffer_line_added")
    /\ Known(ev'.frame.hda[1].buffer)
    /\ ~IsCurrent(ev'.frame.hda[1].buffer)

\* C6 as stated: for every notify_level from -1 to 3, such an event leaves the
\* cache unchanged and increments exactly one hotlist slot of that buffer by one.
C6_EveryLevelIncrementsOneSlot ==
    [][LineForOtherBuffer
       => /\ buf_lines' = buf_lines
          /\ \E i \in DOMAIN bufs, k \in 1..4 :
                /\ bufs[i].ptr_buffer = ev'.frame.hda[1].buffer
                /\ bufs' = [bufs EXCEPT ![i].hotlist[k] = @ + 1]]_vars

\* C6 as amended: the cache is unchanged; for notify_level 0, 1, 2, 3 the slot
\* low, message, private, highlight of that buffer goes up by one and nothing
\* else changes; for notify_level -1 no counter changes.
C6_LevelSelectsSlot ==
    [][LineForOtherBuffer
       => LET l == ev'.frame.hda[1] IN
          /\ buf_lines' = buf_lines
          /\ IF l.notify_level \in 0..3
             THEN \E i \in DOMAIN bufs :
                    /\ bufs[i].ptr_buffer = l.buffer
                    /\ bufs' = [bufs EXCEPT ![i].hotlist[l.notify_level + 1] = @ + 1]
             ELSE bufs' = bufs]_vars

\* A highlight line for a buffer that is not current has been counted.
C6_Witness ==
    /\ HasHandled("_buffer_line_added")
    /\ ev.frame.hda[1].notify_level = 3
    /\ \E i \in DOMAIN bufs :
          /\ bufs[i].ptr_buffer = ev.frame.hda[1].buffer
          /\ bufs[i].full_name # current_buffer
          /\ bufs[i].hotlist = <<0, 0, 0, 1>>

\* C7: after a backlog_lines reply with rows r1..rn the cache is rn..r1 (colors
\* stripped), whatever it held before, and is_scrolling is false.
C7_BacklogOldestFirst ==
    [][Handled("backlog_lines")
       => LET rows == ev'.frame.hda
              n == Len(rows)
          IN /\ Len(buf_lines') = n
             /\ \A i \in 1..n : buf_lines'[i] = StripLine(rows[n + 1 - i])
             /\ is_scrolling' = FALSE]_vars

\* A two-row backlog has been cached, the older row first.
C7_Witness ==
    /\ HasHandled("backlog_lines")
    /\ Len(ev.frame.hda) = 2
    /\ ev.frame.hda[1].ptr_line = Some("a2")
    /\ Len(buf_lines) = 2
    /\ buf_lines[1].ptr_line = Some("a1")
    /\ buf_lines[2].ptr_line = Some("a2")
    /\ ~is_scrolling

\* C8: a backlog_lines reply with at least one row appends to the send queue
\* the read marker for the first row's buffer and then the gui_hotlist
\* request, and nothing else; a reply with no row queues nothing.
C8_BacklogMarksRead ==
    [][Handled("backlog_lines")
       => LET rows == ev'.frame.hda IN
          send_queue' =
            IF Len(rows) >= 1
            THEN send_queue
                 \o <<"input 0x" \o rows[1].buffer \o " /buffer set hotlist -1\n",
                      "(gui_hotlist) hdata hotlist:gui_hotlist(*)\n">>
            ELSE send_queue]_vars

\* The read marker and the hotlist request of a backlog are the newest in the queue.
C8_Witness ==
    /\ HasHandled("backlog_lines")
    /\ Len(ev.frame.hda) >= 1
    /\ Len(send_queue) >= 3
    /\ send_queue[Len(send_queue) - 1] = "input 0x1a /buffer set hotlist -1\n"
    /\ send_queue[Len(send_queue)] = "(gui_hotlist) hdata hotlist:gui_hotlist(*)\n"

\* C9: a scrollback_lines reply, with any number of rows, sets is_scrolling
\* and queues nothing.
C9_ScrollbackQueuesNothing ==
    [][Handled("scrollback_lines")
       => /\ is_scrolling' = TRUE
          /\ send_queue' = send_queue]_vars

\* A scrollback reply with rows has been handled.
C9_Witness ==
    /\ HasHandled("scrollback_lines")
    /\ Len(ev.frame.hda) = 2
    /\ Len(buf_lines) = 2
    /\ is_scrolling

\* C10: with more than k lines cached and a ptr_line p on the line at index
\* len-1-k (from 0), scroll_back(k) queues exactly the scrollback_lines request
\* for p and changes neither the cache, current_buffer nor is_scrolling.
C10_ScrollBackRequest ==
    [][(/\ ev'.op = "scroll_back"
        /\ Len(buf_lines) > ev'.scroll
        /\ buf_lines[Len(buf_lines) - ev'.scroll].ptr_line # None)
       => LET p == buf_lines[Len(buf_lines) - ev'.scroll].ptr_line[1] IN
          /\ send_queue' = Append(send_queue,
                                  "(scrollback_lines) hdata line:0x" \o p \o "(-100)/data\n")
          /\ buf_lines' = buf_lines
          /\ current_buffer' = current_buffer
          /\ is_scrolling' = is_scrolling
          /\ pc' = pc]_vars

\* scroll_back(1) over two cached lines has asked for the lines before the older one.
C10_Witness ==
    /\ ev.op = "scroll_back"
    /\ ev.scroll = 1
    /\ Len(buf_lines) = 2
    /\ buf_lines[1].ptr_line = Some("a1")
    /\ send_queue # <<>>
    /\ send_queue[Len(send_queue)] = "(scrollback_lines) hdata line:0xa1(-100)/data\n"

\* The buffer of the list with this full name, as get_current_buffer finds it.
PtrOf(name) == GetCurrentBuffer(bufs, name)[1].ptr_buffer

\* C16: between turns every cached line belongs to the buffer that
\* get_current_buffer returns.
C16_CacheOfCurrentBuffer ==
    pc = "idle" =>
        \A i \in DOMAIN buf_lines :
            /\ get_current_buffer # None
            /\ buf_lines[i].buffer = get_current_buffer[1].ptr_buffer

\* The step handles a line event right after switch_current_buffer moved from
\* one buffer of the list to another.
LineAfterSwitch ==
    /\ ev.op = "switch_current_buffer"
    /\ ev.old # ev.full_name
    /\ GetCurrentBuffer(bufs, ev.old) # None
    /\ GetCurrentBuffer(bufs, ev.full_name) # None
    /\ Handled("_buffer_line_added")

Reloads(ids) == ev'.op = "handle_one" /\ ev'.frame.id \in {Some(id) : id \in ids}

\* C18 as stated: the cache changes only by a line appended at its end,
\* except when a backlog_lines reply is handled.
C18_AppendOnlyButBacklog ==
    [][\/ buf_lines' = buf_lines
       \/ Len(buf_lines') = Len(buf_lines) + 1
          /\ SubSeq(buf_lines', 1, Len(buf_lines)) = buf_lines
       \/ Reloads({"backlog_lines"})]_vars

\* C18 as amended: the cache changes only by a line appended at its end,
\* except when a backlog_lines or a scrollback_lines reply is handled, which
\* replaces it by the reply's rows; scroll_back never changes it.
C18_AppendOnlyButReload ==
    [][/\ \/ buf_lines' = buf_lines
          \/ Len(buf_lines') = Len(buf_lines) + 1
             /\ SubSeq(buf_lines', 1, Len(buf_lines)) = buf_lines
          \/ Reloads({"backlog_lines", "scrollback_lines"})
       /\ ev'.op = "scroll_back" => buf_lines' = buf_lines]_vars

\* A line event has extended a cache of two lines that a reply had loaded.
C18_Witness ==
    /\ HasHandled("_buffer_line_added")
    /\ Len(buf_lines) = 3
    /\ buf_lines[1].ptr_line = Some("a1")
    /\ buf_lines[2].ptr_line = Some("a2")
    /\ buf_lines[3] = StripLine(ev.frame.hda[1])

\* C15: the line cache never holds more than BUFFER_CACHE_SIZE lines, with
\* replies of at most that many rows and any number of line events.
C15_CacheBounded == Len(buf_lines) <= BUFFER_CACHE_SIZE

\* C11: switch_current_buffer(name) sets current_buffer to name; it queues
\* exactly one backlog_lines request for the ptr_buffer of the buffer with that
\* full name when the list has one, and nothing otherwise; the line cache and
\* is_scrolling are unchanged.
C11_SwitchRequestsBacklog ==
    [][ev'.op = "switch_current_buffer"
       => LET named == {i \in DOMAIN bufs : bufs[i].full_name = ev'.full_name} IN
          /\ current_buffer' = ev'.full_name
          /\ IF named = {} THEN send_queue' = send_queue
             ELSE \E i \in named :
                    send_queue' =
                      Append(send_queue,
                             "(backlog_lines) hdata buffer:0x" \o bufs[i].ptr_buffer
                                \o "/own_lines/last_line(-100)/data\n")
          /\ buf_lines' = buf_lines
          /\ is_scrolling' = is_scrolling]_vars

\* The second buffer of the list has been made current and its backlog asked for.
C11_Witness ==
    /\ ev.op = "switch_current_buffer"
    /\ ev.full_name = "irc.chan"
    /\ current_buffer = "irc.chan"
    /\ Len(bufs) = 2
    /\ send_queue # <<>>
    /\ send_queue[Len(send_queue)]
         = "(backlog_lines) hdata buffer:0x2b/own_lines/last_line(-100)/data\n"

\* The fields of a buffer that a gui_buffers row carries.
RowOf(b) == [ptr_buffer |-> b.ptr_buffer, number |-> b.number,
             short_name |-> b.short_name, full_name |-> b.full_name,
             title |-> b.title]

\* C12: after a gui_buffers reply the buffer list is the received rows in the
\* received order, every hotlist (0,0,0,0), whatever the list held before.
C12_BuffersReplaced ==
    [][Handled("gui_buffers")
       => LET rows == ev'.frame.hda IN
          /\ Len(bufs') = Len(rows)
          /\ \A i \in DOMAIN rows :
                /\ RowOf(bufs'[i]) = rows[i]
                /\ bufs'[i].hotlist = <<0, 0, 0, 0>>]_vars

\* A shorter list has replaced the list in which the current buffer was found.
C12_Witness ==
    /\ HasHandled("gui_buffers")
    /\ ev.frame.hda = <<RowChan>>
    /\ Len(bufs) = 1
    /\ bufs[1].hotlist = <<0, 0, 0, 0>>
    /\ current_buffer = "core.weechat"
    /\ BacklogMsg("1a") \in Range(send_queue)

\* C13: after a gui_hotlist reply every buffer named by a row has that row's
\* counters, every other buffer has (0,0,0,0), and nothing else of the list
\* changes (rows for unknown buffers are without effect).
C13_HotlistApplied ==
    [][Handled("gui_hotlist")
       => LET rows == ev'.frame.hda
              RowsFor(b) == {k \in DOMAIN rows : rows[k].buffer = b.ptr_buffer}
          IN /\ Len(bufs') = Len(bufs)
             /\ \A i \in DOMAIN bufs :
                   /\ RowOf(bufs'[i]) = RowOf(bufs[i])
                   /\ IF RowsFor(bufs[i]) = {}
                      THEN bufs'[i].hotlist = <<0, 0, 0, 0>>
                      ELSE \E k \in RowsFor(bufs[i]) :
                              bufs'[i].hotlist = rows[k].count]_vars

\* A reply naming the first buffer and an unknown one has been applied over
\* two buffers.
C13_Witness ==
    /\ HasHandled("gui_hotlist")
    /\ Len(ev.frame.hda) = 2
    /\ ev.frame.hda[1].buffer = UnknownPtr
    /\ Len(bufs) = 2
    /\ bufs[1].hotlist = <<0, 0, 1, 0>>
    /\ bufs[2].hotlist = <<0, 0, 0, 0>>

\* C14: each of _buffer_opened, _buffer_closing, _buffer_renamed and
\* _buffer_title_changed queues the gui_buffers request and then the
\* gui_hotlist request, and nothing else; the buffer list, the line cache,
\* current_buffer and is_scrolling are unchanged.
C14_BufferEventsRefresh ==
    [][(\E id \in {"_buffer_opened", "_buffer_closing", "_buffer_renamed",
                   "_buffer_title_changed"} : Handled(id))
       => /\ send_queue' = send_queue
                \o <<"(gui_buffers) hdata buffer:gui_buffers(*)\n",
                     "(gui_hotlist) hdata hotlist:gui_hotlist(*)\n">>
          /\ bufs' = bufs
          /\ buf_lines' = buf_lines
          /\ current_buffer' = current_buffer
          /\ is_scrolling' = is_scrolling]_vars

\* A rename event has queued the two requests over a known buffer list.
C14_Witness ==
    /\ HasHandled("_buffer_renamed")
    /\ bufs # <<>>
    /\ Len(send_queue) >= 2
    /\ send_queue[Len(send_queue) - 1] = "(gui_buffers) hdata buffer:gui_buffers(*)\n"
    /\ send_queue[Len(send_queue)] = "(gui_hotlist) hdata hotlist:gui_hotlist(*)\n"

\* C19: consume_completion returns the pending payload and leaves the slot
\* empty; a call that directly follows another call returns None.
C19_CompletionTakenOnce ==
    [][ev'.op = "consume_completion"
       => /\ ev'.result = completion
          /\ completion' = None
          /\ ev.op = "consume_completion" => ev'.result = None]_vars

\* The first row of a completion reply has been taken.
C19_Witness ==
    /\ ev.op = "consume_completion"
    /\ ev.result = Some(CompletionRow(<<"hello">>))
    /\ completion = None

\* C20: a frame whose id is none of the ids handle_one matches, a null id
\* included, is handled with success and changes nothing of the session.
C20_UnknownIdIgnored ==
    [][(/\ ev'.op = "handle_one"
        /\ ev'.frame.id \notin
             {Some(id) : id \in {"gui_buffers", "gui_hotlist", "backlog_lines",
                                 "scrollback_lines", "_buffer_opened",
                                 "_buffer_closing", "_buffer_renamed",
                                 "_buffer_title_changed", "_buffer_line_added",
                                 "completion"}})
       => /\ pc' = "idle"
          /\ UNCHANGED session]_vars

\* A frame with a null id has been handled in a session that holds buffers
\* and queued commands.
C20_Witness ==
    /\ ev.op = "handle_one"
    /\ ev.frame.id = None
    /\ pc = "idle"
    /\ bufs # <<>>
    /\ send_queue # <<>>

\* C21: a run() turn takes one branch of select!.  Once it has read a frame
\* header it writes nothing and does not go back to select! or to the quit
\* write before it returns; what the handlers queue is appended to the send
\* queue and nothing is taken from it.  A step that writes handles no frame
\* and changes nothing of the session but the send queue, and the awaited
\* quit write is followed only by the turn's return.
C21_TurnTakesOneBranch ==
    [][/\ pc \in {"body", "drain"}
          => /\ stream_out' = stream_out
             /\ pc' \in {"body", "drain", "idle", "panic", "desync"}
             /\ Len(send_queue') >= Len(send_queue)
             /\ SubSeq(send_queue', 1, Len(send_queue)) = send_queue
             /\ SubSeq(send_queue', Len(send_queue) + 1, Len(send_queue'))
                  = SubSeq(enq', Len(enq) + 1, Len(enq'))
       /\ stream_out' # stream_out
          => /\ pc \in {"select", "quit"}
             /\ pc' = "idle"
             /\ UNCHANGED <<current_buffer, bufs, buf_lines, completion, is_scrolling,
                            stream_in, ev>>
       /\ pc = "quit"
          => /\ pc' \in {"quit", "idle"}
             /\ UNCHANGED <<current_buffer, bufs, buf_lines, completion, is_scrolling, ev>>]_vars

\* After an outbound turn wrote a command, an inbound turn has handled a
\* backlog and returned with the handler's requests still queued.
C21_Witness ==
    /\ pc = "idle"
    /\ HasHandled("backlog_lines")
    /\ stream_out # <<>>
    /\ Len(send_queue) >= 2
    /\ send_queue[Len(send_queue)] = HotlistMsg

\* C22: a frame whose compression byte is not zero makes the turn end with
\* an error that run() returns to its caller.
C22_CompressionIsError ==
    [][(/\ ev'.op = "handle_one"
        /\ frames_left' # frames_left
        /\ ev'.comp # 0)
       => pc' = "error"]_vars

\* C23: once a turn has returned an error the only step is the exit of the
\* process with a non-zero code: no further turn runs, no frame is handled,
\* no command is queued or written, and nothing follows the exit.
C23_ErrorIsFatal ==
    [][/\ pc = "error"
          => /\ pc' = "exited"
             /\ ev'.op = "exit"
             /\ ev'.code # 0
             /\ UNCHANGED <<session, stream_in, stream_out, enq, frames_left, ops_left>>
       /\ pc # "exited"]_vars

\* The process has exited with code 2 on a body that did not decode, after
\* frames were handled and with frames and operations still to come.
C23_Witness ==
    /\ pc = "exited"
    /\ ev.code = 2
    /\ ev.err = "PacketError"
    /\ bufs # <<>>
    /\ frames_left > 0
    /\ ops_left > 0

\* The process has exited on a connection the server closed.
C23_WitnessIo ==
    /\ pc = "exited"
    /\ ev.err = "IOError"

\* C24: when the server closes the connection while the version_check reply
\* is awaited, connect fails with the protocol error `Connection
\* unexpectedly closed. Check password.`.
C24_ClosedIsProtocolError ==
    [][(pc = "version" /\ ev'.op = "auth_closed")
       => /\ pc' = "failed"
          /\ ev'.err = ProtocolError("Connection unexpectedly closed. Check password.")]_vars

\* C25: a handshake reply with a password_hash_algo other than plain, sha256
\* and sha512 makes auth return an error, and no init command is written.
C25_UnsupportedAlgoIsError ==
    [][(/\ pc = "handshake"
        /\ ev'.op = "auth_init"
        /\ ev'.comp = 0
        /\ ev'.handshake.password_hash_algo \notin Range(SUPPORTED_HASHES))
       => /\ pc' = "failed"
          /\ stream_out' = stream_out]_vars

\* The option of the init command the step wrote: the text between `init `
\* and the line end.
AuthWritten ==
    LET w == stream_out'[Len(stream_out') - 1]
    IN SubSeq(w, 6, Len(w) - 1)

Colons(text) == {i \in DOMAIN text : text[i] = ":"}

\* C26: for plain the option is `password=` and the password.  For sha256
\* and sha512 it has three fields separated by colons: `password_hash=sha`
\* and the size; the server nonce as it was received followed by the
\* fourteen lower-case hexadecimal digits of the seven-byte client nonce; the
\* hexadecimal digits of the digest (of that size) of the decoded server
\* nonce, then the client nonce, then the password.
C26_AuthOption ==
    [][(pc = "handshake" /\ ev'.op = "auth_init" /\ pc' = "version")
       => LET h == ev'.handshake
              pw == ev'.password
              cn == ev'.c_nonce
              out == AuthWritten
              c1 == CHOOSE i \in Colons(out) : \A j \in Colons(out) : i <= j
              c2 == CHOOSE i \in Colons(out) : \A j \in Colons(out) : i >= j
              f1 == SubSeq(out, 1, c1 - 1)
              f2 == SubSeq(out, c1 + 1, c2 - 1)
              f3 == SubSeq(out, c2 + 1, Len(out))
              n == Len(h.nonce)
          IN IF h.password_hash_algo = "plain"
             THEN /\ SubSeq(out, 1, 9) = <<"p", "a", "s", "s", "w", "o", "r", "d", "=">>
                  /\ SubSeq(out, 10, Len(out)) = pw
             ELSE /\ Cardinality(Colons(out)) = 2
                  /\ f1 = (IF h.password_hash_algo = "sha256"
                           THEN <<"p", "a", "s", "s", "w", "o", "r", "d", "_", "h", "a", "s", "h", "=", "s", "h", "a", "2", "5", "6">>
                           ELSE <<"p", "a", "s", "s", "w", "o", "r", "d", "_", "h", "a", "s", "h", "=", "s", "h", "a", "5", "1", "2">>)
                  /\ Len(f2) = n + 14
                  /\ SubSeq(f2, 1, n) = h.nonce
                  /\ \A i \in (n + 1)..(n + 14) : f2[i] \in Range(HexDigits)
                  /\ hex_decode(SubSeq(f2, n + 1, n + 14)) = cn
                  /\ IsHex(f3)
                  /\ hex_decode(f3)
                       = Digest(IF h.password_hash_algo = "sha256" THEN "256" ELSE "512",
                                hex_decode(h.nonce) \o cn \o as_bytes(pw))]_vars

\* The option for sha256 has been written for a nonce in upper case and the
\* client nonce a4b73207f5aae4.
C26_Witness ==
    /\ pc = "version"
    /\ ev.op = "auth_init"
    /\ ev.handshake.password_hash_algo = "sha256"
    /\ ev.handshake.nonce = <<"E", "E", "0", "0", "6", "9">>
    /\ ev.c_nonce = <<164, 183, 50, 7, 245, 170, 228>>
    /\ SubSeq(stream_out[2], 27, 46)
         = <<"E", "E", "0", "0", "6", "9", "a", "4", "b", "7", "3", "2", "0", "7", "f", "5", "a", "a", "e", "4">>

\* The option for plain has been written.
C26_WitnessPlain ==
    /\ pc = "version"
    /\ ev.op = "auth_init"
    /\ ev.handshake.password_hash_algo = "plain"
    /\ stream_out[2] = <<"i", "n", "i", "t", " ", "p", "a", "s", "s", "w", "o", "r", "d", "=", "f", "o", "o", "b", "a", "r", "\n">>

\* The step is a call of from_bytes on an hdata message of the relay whose
\* path and schema have every field the target record declares.
DecodesHdata ==
    /\ ev'.op = "from_bytes"
    /\ ev'.kind = "hdata"
    /\ ev'.shape.cols \subseteq ({PtrKey(j) : j \in 1..ev'.m} \cup {ColKey(c) : c \in 1..ev'.n})

\* The pointers and the columns of row i of the message, as keys and values.
RowPairs(i, m, n) ==
    [j \in 1..m |-> <<PtrKey(j), as_bytes(PointerOf(i, j))>>]
    \o [c \in 1..n |->
          <<ColKey(c),
            IF c = 1 THEN ValueOf(i, c)
            ELSE IF ValueOf(i, c) = None THEN None
            ELSE Some(as_bytes(ValueOf(i, c)[1]))>>]

\* C27: an hdata with m path components, n columns and k rows decodes, with
\* nothing left over, to the id and exactly k rows; row i holds, in the order
\* of the wire, ptr_<component> with its pointer for each component and each
\* column with its value, for the fields the target declares (all of them for
\* a map); the other columns are read past.  Null path, null schema and count
\* 0 decode to no row.
C27_HdataRows ==
    [][DecodesHdata
       => LET r == ev'.res
              Wanted(p) == Declared(ev'.shape, p[1])
          IN /\ r.st = "ok"
             /\ Len(r.val) = 2
             /\ r.val[1] = <<T.id, Some(as_bytes(MsgId))>>
             /\ r.val[2][1] = T.hda
             /\ Len(r.val[2][2]) = ev'.k
             /\ \A i \in 1..ev'.k :
                   r.val[2][2][i] = SelectSeq(RowPairs(i, ev'.m, ev'.n), Wanted)]_vars

\* Two rows of two pointers and three columns have been decoded into a
\* record that declares one pointer and one column.
C27_Witness ==
    /\ ev.op = "from_bytes"
    /\ ev.kind = "hdata"
    /\ ev.m = 2 /\ ev.n = 3 /\ ev.k = 2
    /\ ev.shape.cols = {PtrKey(1), ColKey(1), ColKey(2)}
    /\ ev.res.st = "ok"
    /\ ev.res.val[2][2][2]
         = <<(<<PtrKey(1), as_bytes(<<"2", "a">>)>>), (<<ColKey(1), 8>>),
             (<<ColKey(2), Some(as_bytes(<<"i", "r", "c", ".", "c", "h", "a", "n">>))>>)>>

\* The hdata without path, schema and rows has been decoded to no row.
C27_WitnessEmpty ==
    /\ ev.op = "from_bytes"
    /\ ev.kind = "hdata"
    /\ ev.m = 0 /\ ev.n = 0 /\ ev.k = 0
    /\ ev.input = EncStr(MsgId) \o T.hda \o NullLen \o NullLen \o <<0, 0, 0, 0>>
    /\ ev.res = Ok(<<(<<T.id, Some(as_bytes(MsgId))>>), (<<T.hda, <<>> >>)>>, <<>>)

\* C28: from_bytes on a message followed by further bytes returns the error
\* TrailingCharacters, for a record with an id and a payload field and for a
\* tuple record.
C28_TrailingIsError ==
    [][(ev'.op = "from_bytes" /\ ev'.kind = "trailing")
       => ev'.res.st = "TrailingCharacters"]_vars

\* C29: from_bytes on a message that stops before its declared length, or
\* whose payload has a type marker outside the known set, returns an error
\* value.
C29_ShortOrUnknownIsError ==
    [][(ev'.op = "from_bytes" /\ ev'.kind \in {"truncated", "tag"})
       => ev'.res.st \notin {"ok", "panic"}]_vars

\* C30: with the replies handled in the order of the requests, once every
\* requested reply has been handled every cached line belongs to the current
\* buffer.
C30_SettledCacheIsCurrent ==
    (pc = "idle" /\ Replied = Len(LineRequests))
        => \A i \in DOMAIN buf_lines : IsCurrent(buf_lines[i].buffer)

\* C33: scroll_back(n) called when no cached line pointer is available (the
\* cache is empty, or the selected line has no ptr_line) returns and, the
\* current buffer being in the list, queues exactly the backlog_lines request
\* for the current buffer.
C33_NoPointerRequestsBacklog ==
    [][(/\ ev'.op = "scroll_back"
        /\ get_current_buffer # None
        /\ LET i == ScrollLine(buf_lines, ev'.scroll)
           IN i = 0 \/ buf_lines[i].ptr_line = None)
       => /\ pc' = pc
          /\ send_queue' = Append(send_queue,
                                  "(backlog_lines) hdata buffer:0x"
                                      \o get_current_buffer[1].ptr_buffer
                                      \o "/own_lines/last_line(-100)/data\n")]_vars

\* C34: handling a gui_hotlist reply while current_buffer is the empty string
\* sets current_buffer to core.weechat and queues the backlog_lines request of
\* the buffer named core.weechat when the list has one (nothing otherwise);
\* while current_buffer is not empty the reply changes neither current_buffer
\* nor the send queue.
C34_HotlistAutoSwitch ==
    [][(/\ ev'.op = "handle_one"
        /\ ev'.frame.id = Some("gui_hotlist")
        /\ pc' # "panic")
       => IF current_buffer = ""
          THEN /\ current_buffer' = "core.weechat"
               /\ LET core == {i \in DOMAIN bufs : bufs[i].full_name = "core.weechat"} IN
                  IF core = {} THEN send_queue' = send_queue
                  ELSE \E i \in core :
                         send_queue' = Append(send_queue,
                                              "(backlog_lines) hdata buffer:0x"
                                                  \o bufs[i].ptr_buffer
                                                  \o "/own_lines/last_line(-100)/data\n")
          ELSE /\ current_buffer' = current_buffer
               /\ send_queue' = send_queue]_vars

\* The first hotlist reply of a session that has the buffer list and has made
\* no call yet: the session is on core.weechat and its backlog is asked for.
C34_Witness ==
    /\ HasHandled("gui_hotlist")
    /\ ops_left = MaxOps
    /\ current_buffer = "core.weechat"
    /\ enq = <<"(backlog_lines) hdata buffer:0x1a/own_lines/last_line(-100)/data\n">>

\* A hotlist reply handled while the session was on irc.chan.
C34_WitnessKept ==
    /\ HasHandled("gui_hotlist")
    /\ current_buffer = "irc.chan"

\* C38: strip_colors returns a result for every text, also one that ends
\* directly after a \x19 byte or inside a colour code; the result holds no
\* \x19 and no \x1c, and a text without \x19 comes back with exactly its
\* other characters, in order.
C38_StripIsTotal ==
    ev.op = "strip_colors"
    => /\ ev.res.ok
       /\ \A i \in DOMAIN ev.res.out : ev.res.out[i] \notin {X19, X1C}
       /\ (\A i \in DOMAIN ev.text : ev.text[i] # X19)
            => ev.res.out = SelectSeq(ev.text, LAMBDA c : c # X1C)

\* C39: LineEdit.complete with a non-empty list returns, having replaced the
\* characters at positions min(pos_start, pos_end) through pos_end (no further
\* than the end of the text) with list[0] and put the cursor directly after
\* the inserted text; when add_space is 1 one space is inserted at the cursor
\* and the cursor moves past it.  With an empty list it changes neither the
\* text nor the cursor.
C39_CompleteReplacesRange ==
    [][ev'.op = "complete"
       => LET c == ev'.arg
              len == Len(ui_input.data)
              last == Min(len, c.pos_end + 1)
              first == Min(Min(c.pos_start, c.pos_end), last)
              word == c.list[1]
              space == IF c.add_space = 1 THEN <<" ">> ELSE <<>>
          IN IF c.list = <<>> THEN ui_input' = ui_input /\ pc' = pc
             ELSE /\ pc' = pc
                  /\ ui_input'.data = SubSeq(ui_input.data, 1, first) \o word \o space
                                          \o SubSeq(ui_input.data, last + 1, len)
                  /\ ui_input'.cursor = first + Len(word) + Len(space)]_vars

C40_WitnessLeft ==
    /\ ev.op = "handle_input"
    /\ ev.arg = <<Key("Left", "")>>
    /\ ui_input = [data |-> <<"a", "\n">>, cursor |-> 0]


\* C31: applying a completion reply to the composer never fails, whatever
\* the user typed, erased or cleared between the request and its reply: the
\* draw that takes a pending completion returns.
C31_CompletionNeverFails ==
    (ev.op = "after_turn" /\ ev.pending # None) => pc # "panic"


\* C32: when the main loop ends through the Quit action or a failed read of
\* the keyboard, `(quit) quit\n` has been written to the transport by the
\* time the run function returns.
C32_QuitWrittenBeforeReturn ==
    pc = "returned" => QuitMsg \in Range(stream_out)


C35_WitnessNoCore ==
    /\ ev.op = "after_turn"
    /\ ev.switched
    /\ bufs = BuffersFromRows(<<RowChan>>)
    /\ current_buffer = "core.weechat"
    /\ enq[Len(enq)] = SendMsg("sync", "sync")


\* The Input arm with a current buffer has queued, after all that was queued
\* before and in line order, one command with an empty id for every line of
\* the composer's text, `input <target> <line>`, no line holding a newline,
\* and has emptied the composer.  The lines are the pieces between the
\* newlines of the text, a newline at its end ending the last line.
InputArmQueues(byPointer) ==
    (ev'.op = "input" /\ ev'.action = "Input" /\ get_current_buffer # None)
    => LET text == handle_input(ui_input, ev'.keys).le.data
           body == IF text # <<>> /\ text[Len(text)] = "\n"
                   THEN SubSeq(text, 1, Len(text) - 1) ELSE text
           ls == IF text = <<>> THEN <<>> ELSE Split(body, "\n")
           target == IF byPointer THEN "0x" \o get_current_buffer[1].ptr_buffer
                     ELSE get_current_buffer[1].full_name
           sent == [i \in DOMAIN ls |->
                       "() input " \o target \o " " \o get_string(ls[i]) \o "\n"]
       IN /\ \A i \in DOMAIN ls : "\n" \notin Range(ls[i])
          /\ Join(ls, "\n") = body
          /\ enq' = enq \o sent
          /\ send_queue' = send_queue \o sent
          /\ ui_input' = LineEditNew

\* C37 as stated: on the Input action with a current buffer, every line of
\* the composer's text is enqueued as exactly one command `input
\* 0x<ptr_buffer of the current buffer> <line>`, in line order, and the
\* composer is then cleared; no command holds a newline before its
\* terminator.
C37_InputByPointer == [][InputArmQueues(TRUE)]_vars

\* C37 with the target the code writes: every line is enqueued as exactly
\* one command `input <full_name of the current buffer> <line>`, in line
\* order, and the composer is then cleared; no command holds a newline
\* before its terminator.
C37_InputByName == [][InputArmQueues(FALSE)]_vars

\* A composer of two lines was sent to core.weechat as two commands.
C37_Witness ==
    /\ ev.op = "input"
    /\ ev.action = "Input"
    /\ Len(enq) >= 5
    /\ enq[Len(enq) - 1] = "() input core.weechat a\n"
    /\ enq[Len(enq)] = "() input core.weechat a\n"
    /\ enq[Len(enq) - 2] = SendMsg("sync", "sync")
    /\ ui_input = LineEditNew


\* C36: during connect() the handshake command is written first; init is
\* written only once the handshake reply has been read, and the
\* version_check probe directly after it; the session is returned only once
\* the version reply has been read; and nothing else (no hdata, input, sync,
\* completion or quit command) is written before connect() has returned.
C36_ConnectOrder ==
    /\ [](/\ pc = "auth" => stream_out = <<>>
          /\ pc = "handshake" => stream_out = <<HandshakeMsg>>
          /\ Len(stream_out) >= 1 => stream_out[1] = HandshakeMsg
          /\ Len(stream_out) >= 2
                => /\ Len(stream_out) >= 3
                   /\ SubSeq(stream_out[2], 1, 5) = <<"i", "n", "i", "t", " ">>
                   /\ stream_out[3] = VersionCheckMsg
          /\ pc \in {"version", "failed", "panic"} => Len(stream_out) <= 3
          /\ pc \in {"idle", "select", "quit"} => Len(stream_out) >= 3)
    /\ [][(pc \notin {"idle", "select", "quit"} /\ pc' \in {"idle", "select", "quit"})
          => /\ pc = "version"
             /\ ev'.op = "connect"
             /\ stream_out' = stream_out]_vars

\* connect() returned after a salted handshake and the first request of the
\* session was written after the three commands of the preamble.
C36_Witness ==
    /\ pc = "idle"
    /\ Len(stream_out) = 4
    /\ stream_out[4] = BuffersMsg
    /\ Len(stream_out[2]) > 40

====
